---- MODULE Spec2Model ----
(***************************************************************************)
(* A model of the BlekkPro PMU brush module (src/BlekkProPMUBrushes.js):   *)
(* the brush catalog, the brush session (tier, selected preset, overrides) *)
(* and the stroke renderer writing to a 2D drawing context; and of the     *)
(* face detector (src/BlekkProFacialRecognition.js): the loading of its    *)
(* model and its symmetry score.                                           *)
(*                                                                         *)
(* JavaScript values are modelled as records [t, n, d, s, props]:          *)
(*   t      the type tag ("undefined", "null", "boolean", "number", "nan", *)
(*          "string", "function", "object", "array", "ref")                *)
(*   n / d  the value of a number, an exact rational in lowest terms       *)
(*   s      the value of a string (or the name of a function, the address  *)
(*          of a reference)                                                *)
(*   props  the own enumerable properties of an object (a function from     *)
(*          property names to values) or the elements of an array          *)
(* Preset objects live in a heap, so that "the same object" and "a copy"   *)
(* are different things, as they are in the program.                       *)
(***************************************************************************)
EXTENDS Integers, Sequences, FiniteSets, TLC

VARIABLES
    heap,              \* address -> object: the preset objects of the catalog and the session's copy
    currentBrush,      \* this.currentBrush: null or a reference into the heap
    userSubscription,  \* this.userSubscription
    ctx,               \* the drawing surface: its current drawing state and its stack of saved states
    call,              \* the last call made: its name and arguments
    ret,               \* the value the last call returned
    trace,             \* the calls the last applyBrushStroke made on the surface, in order
    gate,              \* for a dab render: per sample i >= 2, the reference position it was gated against and whether it was stamped
    model,             \* the detector's this.model: 0 for null, else the call whose createDetector made it
    isModelLoaded,     \* the detector's this.isModelLoaded
    isInitializing,    \* the detector's this.isInitializing
    tasks              \* the calls made on the detector, in order: each one's operation, position and result

\* The state of the face detector (src/BlekkProFacialRecognition.js).
detectorVars == <<model, isModelLoaded, isInitializing, tasks>>

\* The state of the brush module, its surface and the observations of its last call.
brushVars == <<heap, currentBrush, userSubscription, ctx, call, ret, trace, gate>>

vars == <<heap, currentBrush, userSubscription, ctx, call, ret, trace, gate,
          model, isModelLoaded, isInitializing, tasks>>

----------------------------------------------------------------------------
(* JavaScript values *)

RECURSIVE GCD(_, _)
GCD(a, b) == IF b = 0 THEN a ELSE GCD(b, a % b)

Abs(x) == IF x < 0 THEN -x ELSE x

Prim(t, n, d, s) == [t |-> t, n |-> n, d |-> d, s |-> s, props |-> <<>>]

Undef == Prim("undefined", 0, 1, "")
Null == Prim("null", 0, 1, "")
NaN == Prim("nan", 0, 1, "")
Bool(b) == Prim("boolean", IF b THEN 1 ELSE 0, 1, "")
Str(s) == Prim("string", 0, 1, s)
Fn(name) == Prim("function", 0, 1, name)
Ref(addr) == Prim("ref", 0, 1, addr)
Obj(props) == [t |-> "object", n |-> 0, d |-> 1, s |-> "", props |-> props]
Arr(elems) == [t |-> "array", n |-> 0, d |-> 1, s |-> "", props |-> elems]

\* The number n/d (d # 0), in lowest terms with a positive denominator.
Rat(n, d) ==
    LET g == GCD(Abs(n), Abs(d))
        sgn == IF d < 0 THEN -1 ELSE 1
    IN  Prim("number", sgn * (n \div g), sgn * (d \div g), "")

Num(n) == Rat(n, 1)
\* A number given in hundredths, as the catalog writes them (0.85 is Pct(85)).
Pct(h) == Rat(h, 100)

IsNum(v) == v.t = "number"

\* Arithmetic on numbers; anything else (undefined, NaN) yields NaN.
Add(a, b) == IF IsNum(a) /\ IsNum(b) THEN Rat(a.n * b.d + b.n * a.d, a.d * b.d) ELSE NaN
Sub(a, b) == IF IsNum(a) /\ IsNum(b) THEN Rat(a.n * b.d - b.n * a.d, a.d * b.d) ELSE NaN
Mul(a, b) == IF IsNum(a) /\ IsNum(b) THEN Rat(a.n * b.n, a.d * b.d) ELSE NaN
\* x / 0 is Infinity or NaN in JavaScript; 0 / 0 is NaN. Only 0/0 and x/y, y # 0, occur here.
Div(a, b) ==
    IF IsNum(a) /\ IsNum(b) /\ b.n # 0 THEN Rat(a.n * b.d, a.d * b.n) ELSE NaN
\* a >= b; false when either side is NaN.
Geq(a, b) == IsNum(a) /\ IsNum(b) /\ a.n * b.d >= b.n * a.d
Leq(a, b) == Geq(b, a)

\* ToBoolean.
Truthy(v) ==
    CASE v.t \in {"undefined", "null", "nan"} -> FALSE
      [] v.t = "boolean" -> v.n = 1
      [] v.t = "number" -> v.n # 0
      [] v.t = "string" -> v.s # ""
      [] OTHER -> TRUE

\* The properties every object inherits from Object.prototype (those the model's inputs name).
ObjectPrototypeKeys == {"constructor", "toString"}

\* The object a value denotes: a reference is followed into the heap h.
Deref(h, v) == IF v.t = "ref" THEN h[v.s] ELSE v

\* obj[key]: an own property, else an inherited one, else undefined.
Get(h, v, key) ==
    LET o == Deref(h, v)
    IN  IF o.t = "object" /\ key \in DOMAIN o.props THEN o.props[key]
        ELSE IF o.t \in {"object", "function"} /\ key \in ObjectPrototypeKeys THEN Fn(key)
        ELSE Undef

\* key in obj: own or inherited.
HasIn(h, v, key) ==
    LET o == Deref(h, v)
    IN  \/ o.t = "object" /\ key \in DOMAIN o.props
        \/ o.t \in {"object", "function"} /\ key \in ObjectPrototypeKeys

\* The own enumerable properties of a value, as { ...v } copies them.
OwnProps(h, v) ==
    LET o == Deref(h, v)
    IN  IF o.t = "object" THEN o.props ELSE <<>>

\* f with key set to val (added when absent).
Put(f, key, val) == [k \in DOMAIN f \cup {key} |-> IF k = key THEN val ELSE f[k]]

----------------------------------------------------------------------------
(* The catalog (constructor) *)

Preset(name, type, size, opacity, spacing, scatter, pressureSensitivity, subscription) ==
    Obj([name |-> Str(name), type |-> Str(type), size |-> Num(size),
         opacity |-> Pct(opacity), spacing |-> Pct(spacing), scatter |-> Pct(scatter),
         pressureSensitivity |-> Pct(pressureSensitivity),
         subscription |-> Str(subscription)])

\* The preset objects the constructor builds, by address (numbers other than size in hundredths).
CatalogObjects ==
    [basic_standardLiner |-> Preset("Standard Liner", "liner", 1, 90, 10, 0, 70, "free"),
     basic_standardShader |-> Preset("Standard Shader", "shader", 3, 80, 15, 10, 80, "free"),
     basic_powderBrow |-> Preset("Powder Brow", "shader", 5, 60, 20, 30, 50, "free"),
     advanced_shader3RS |-> Preset("3RS Shader", "specialized", 3, 85, 12, 8, 90, "pro"),
     advanced_ombreLipOutline |-> Preset("Ombre Lip Outline", "specialized", 2, 90, 5, 2, 80, "pro"),
     advanced_microbladeNatural |-> Preset("Microblade Natural", "specialized", 1, 95, 2, 1, 90, "pro")]

CatalogAddrs == DOMAIN CatalogObjects

\* this.brushPresets: category -> id -> the preset object (a reference to it).
brushPresets ==
    Obj([basic |-> Obj([standardLiner |-> Ref("basic_standardLiner"),
                        standardShader |-> Ref("basic_standardShader"),
                        powderBrow |-> Ref("basic_powderBrow")]),
         advanced |-> Obj([shader3RS |-> Ref("advanced_shader3RS"),
                           ombreLipOutline |-> Ref("advanced_ombreLipOutline"),
                           microbladeNatural |-> Ref("advanced_microbladeNatural")])])

\* The address of the object the session allocates for its selected preset. An
\* object the session no longer refers to is not kept, so one address serves.
SessionAddr == "session_brush"

InitHeap ==
    [a \in CatalogAddrs \cup {SessionAddr} |->
        IF a \in CatalogAddrs THEN CatalogObjects[a] ELSE Undef]

----------------------------------------------------------------------------
(* The session's operations *)

Called(op, args) == [op |-> op, args |-> args]

\* What an operation that draws nothing leaves of the drawing observations.
NoDrawing == trace' = <<>> /\ gate' = <<>> /\ UNCHANGED ctx

\* A faulty variant: a downgrade to 'free' also drops the selected preset.
setUserSubscriptionRevoking(level) ==
    /\ call' = Called("setUserSubscription", <<level>>)
    /\ IF level # Str("free") /\ level # Str("pro")
       THEN /\ ret' = Bool(FALSE)
            /\ UNCHANGED <<userSubscription, currentBrush>>
       ELSE /\ userSubscription' = level
            /\ currentBrush' = IF level = Str("free") THEN Null ELSE currentBrush
            /\ ret' = Bool(TRUE)
    /\ UNCHANGED heap
    /\ NoDrawing
    /\ UNCHANGED detectorVars

setUserSubscription(level) ==
    /\ call' = Called("setUserSubscription", <<level>>)
    /\ IF level # Str("free") /\ level # Str("pro")
       THEN /\ ret' = Bool(FALSE)
            /\ UNCHANGED userSubscription
       ELSE /\ userSubscription' = level
            /\ ret' = Bool(TRUE)
    /\ UNCHANGED <<heap, currentBrush>>
    /\ NoDrawing
    /\ UNCHANGED detectorVars

\* { ...brush } for every [id, brush] of a category object.
LockedPreview(h, category) ==
    [id \in DOMAIN category.props |-> Obj(OwnProps(h, category.props[id]))]

\* A faulty variant: the advanced presets are listed as unlocked whatever the tier.
AvailableBrushesAllUnlocked(h, tier) ==
    Obj([basic |-> Obj(OwnProps(h, Get(h, brushPresets, "basic"))),
         advanced |-> Obj(OwnProps(h, Get(h, brushPresets, "advanced")))])

AvailableBrushes(h, tier) ==
    LET basic == Obj(OwnProps(h, Get(h, brushPresets, "basic")))
    IN  IF tier = Str("pro")
        THEN Obj([basic |-> basic,
                  advanced |-> Obj(OwnProps(h, Get(h, brushPresets, "advanced")))])
        ELSE Obj([basic |-> basic,
                  locked |-> Obj(LockedPreview(h, Get(h, brushPresets, "advanced")))])

getAvailableBrushes ==
    /\ call' = Called("getAvailableBrushes", <<>>)
    /\ ret' = AvailableBrushes(heap, userSubscription)
    /\ UNCHANGED <<heap, currentBrush, userSubscription>>
    /\ NoDrawing
    /\ UNCHANGED detectorVars

Prompt(title, message, benefits) ==
    Obj([title |-> Str(title), message |-> Str(message), benefits |-> Arr(benefits)])

prompts ==
    Obj([shader3RS |->
            Prompt("Unlock 3RS Shader Brush",
                   "Upgrade to BlekkPro Pro to access professional 3RS shader brushes for perfect brow shading.",
                   <<Str("Realistic 3-needle round shader simulation"),
                     Str("Precise pigment distribution control"),
                     Str("Professional-grade results")>>),
         ombreLipOutline |->
            Prompt("Unlock Ombre Lip Outline Tool",
                   "Upgrade to BlekkPro Pro to access specialized ombre lip outline tools for perfect lip treatments.",
                   <<Str("Specialized lip outline brushes"),
                     Str("Gradient and feathering controls"),
                     Str("Realistic lip blush simulation")>>),
         microbladeNatural |->
            Prompt("Unlock Natural Microblade Tool",
                   "Upgrade to BlekkPro Pro to access natural microblade tools for realistic hair strokes.",
                   <<Str("Realistic hair stroke simulation"),
                     Str("Natural-looking results"),
                     Str("Advanced pressure sensitivity")>>),
         export_high_res |->
            Prompt("Unlock High-Resolution Export",
                   "Upgrade to BlekkPro Pro to export your designs in high resolution.",
                   <<Str("Professional-quality exports"),
                     Str("Print-ready resolution"),
                     Str("Lossless image quality")>>),
         default |->
            Prompt("Unlock Pro Features",
                   "Upgrade to BlekkPro Pro to access all professional features.",
                   <<Str("All specialized PMU brushes"),
                     Str("Advanced customization options"),
                     Str("High-resolution exports"),
                     Str("Priority support")>>)])

\* prompts[featureId] || prompts.default
getUpgradePrompt(featureId) ==
    LET p == Get(<<>>, prompts, featureId)
    IN  IF Truthy(p) THEN p ELSE Get(<<>>, prompts, "default")

Failure(reason, message) ==
    Obj([success |-> Bool(FALSE), reason |-> Str(reason), message |-> Str(message)])

\* The object selectBrush stores: { ...brush, id: brushId, category }.
SelectedCopy(h, brush, brushId, category) ==
    Obj(Put(Put(OwnProps(h, brush), "id", Str(brushId)), "category", Str(category)))

\* A faulty variant: this.currentBrush = brush, the catalog's own object.
StoreSelectedAlias(h, brush, brushId, category) == [heap |-> h, currentBrush |-> brush]

\* The assignment this.currentBrush = { ...brush, id, category }: the heap and the
\* reference after it. The object is a new one.
StoreSelected(h, brush, brushId, category) ==
    [heap |-> [h EXCEPT ![SessionAddr] = SelectedCopy(h, brush, brushId, category)],
     currentBrush |-> Ref(SessionAddr)]

\* The category existence check: !this.brushPresets[category]
CategoryMissing(h, category) == ~Truthy(Get(h, brushPresets, category))

\* The brush existence check: !this.brushPresets[category][brushId]
BrushMissing(h, category, brushId) ==
    ~Truthy(Get(h, Get(h, brushPresets, category), brushId))

\* A faulty variant: every pro preset is denied, whatever the tier.
SubscriptionDeniedAlways(h, brush, tier) == Get(h, brush, "subscription") = Str("pro")

\* The subscription check: brush.subscription === 'pro' && this.userSubscription !== 'pro'
SubscriptionDenied(h, brush, tier) ==
    Get(h, brush, "subscription") = Str("pro") /\ tier # Str("pro")

\* A faulty variant: a selection refused for the tier also drops the selected preset.
selectBrushDeselecting(category, brushId) ==
    /\ call' = Called("selectBrush", <<Str(category), Str(brushId)>>)
    /\ IF CategoryMissing(heap, category)
       THEN /\ ret' = Failure("invalid_category", "Invalid brush category: " \o category)
            /\ UNCHANGED <<heap, currentBrush>>
       ELSE IF BrushMissing(heap, category, brushId)
       THEN /\ ret' = Failure("invalid_brush", "Invalid brush: " \o brushId)
            /\ UNCHANGED <<heap, currentBrush>>
       ELSE LET brush == Get(heap, Get(heap, brushPresets, category), brushId)
            IN  IF SubscriptionDenied(heap, brush, userSubscription)
                THEN /\ ret' = Obj([success |-> Bool(FALSE),
                                    reason |-> Str("subscription_required"),
                                    message |-> Str("This brush requires a Pro subscription"),
                                    upgradePrompt |-> getUpgradePrompt(brushId)])
                     /\ currentBrush' = Null
                     /\ UNCHANGED heap
                ELSE LET stored == StoreSelected(heap, brush, brushId, category)
                     IN  /\ heap' = stored.heap
                         /\ currentBrush' = stored.currentBrush
                         /\ ret' = Obj([success |-> Bool(TRUE), brush |-> stored.currentBrush])
    /\ UNCHANGED userSubscription
    /\ NoDrawing
    /\ UNCHANGED detectorVars

selectBrush(category, brushId) ==
    /\ call' = Called("selectBrush", <<Str(category), Str(brushId)>>)
    /\ IF CategoryMissing(heap, category)
       THEN /\ ret' = Failure("invalid_category", "Invalid brush category: " \o category)
            /\ UNCHANGED <<heap, currentBrush>>
       ELSE IF BrushMissing(heap, category, brushId)
       THEN /\ ret' = Failure("invalid_brush", "Invalid brush: " \o brushId)
            /\ UNCHANGED <<heap, currentBrush>>
       ELSE LET brush == Get(heap, Get(heap, brushPresets, category), brushId)
            IN  IF SubscriptionDenied(heap, brush, userSubscription)
                THEN /\ ret' = Obj([success |-> Bool(FALSE),
                                    reason |-> Str("subscription_required"),
                                    message |-> Str("This brush requires a Pro subscription"),
                                    upgradePrompt |-> getUpgradePrompt(brushId)])
                     /\ UNCHANGED <<heap, currentBrush>>
                ELSE LET stored == StoreSelected(heap, brush, brushId, category)
                     IN  /\ heap' = stored.heap
                         /\ currentBrush' = stored.currentBrush
                         /\ ret' = Obj([success |-> Bool(TRUE), brush |-> stored.currentBrush])
    /\ UNCHANGED userSubscription
    /\ NoDrawing
    /\ UNCHANGED detectorVars

getCurrentBrush ==
    /\ call' = Called("getCurrentBrush", <<>>)
    /\ ret' = currentBrush
    /\ UNCHANGED <<heap, currentBrush, userSubscription>>
    /\ NoDrawing
    /\ UNCHANGED detectorVars

\* The guard of the merge: key in this.currentBrush
AcceptsKey(h, brush, key) == HasIn(h, brush, key)

\* Object.entries(settings).forEach: every accepted key is assigned on the object
\* this.currentBrush refers to.
MergeSettings(h, brush, settings) ==
    IF brush.t # "ref" THEN h
    ELSE LET o == h[brush.s]
             keys == {k \in DOMAIN settings.props : AcceptsKey(h, brush, k)}
             merged == [k \in DOMAIN o.props \cup keys |->
                           IF k \in keys THEN settings.props[k] ELSE o.props[k]]
         IN  [h EXCEPT ![brush.s] = Obj(merged)]

updateCurrentBrushSettings(settings) ==
    /\ call' = Called("updateCurrentBrushSettings", <<settings>>)
    /\ IF ~Truthy(currentBrush)
       THEN /\ ret' = Bool(FALSE)
            /\ UNCHANGED heap
       ELSE /\ heap' = MergeSettings(heap, currentBrush, settings)
            /\ ret' = Bool(TRUE)
    /\ UNCHANGED <<currentBrush, userSubscription>>
    /\ NoDrawing
    /\ UNCHANGED detectorVars

features ==
    Obj([basic_brushes |-> Str("free"),
         shader_brushes |-> Str("free"),
         liner_brushes |-> Str("free"),
         specialized_brushes |-> Str("pro"),
         ombre_lip |-> Str("pro"),
         microblade |-> Str("pro"),
         powder_brow |-> Str("free"),
         needle_configuration |-> Str("pro"),
         export_high_res |-> Str("pro")])

\* The feature existence check: !features[featureId]
FeatureMissing(featureId) == ~Truthy(Get(<<>>, features, featureId))

FeatureAvailable(featureId, tier) ==
    IF FeatureMissing(featureId) THEN FALSE
    ELSE IF Get(<<>>, features, featureId) = Str("free") THEN TRUE
    ELSE tier = Str("pro")

isFeatureAvailable(featureId) ==
    /\ call' = Called("isFeatureAvailable", <<Str(featureId)>>)
    /\ ret' = Bool(FeatureAvailable(featureId, userSubscription))
    /\ UNCHANGED <<heap, currentBrush, userSubscription>>
    /\ NoDrawing
    /\ UNCHANGED detectorVars

----------------------------------------------------------------------------
(* The drawing surface (CanvasRenderingContext2D, as the renderer uses it) *)

\* The drawing state that save() pushes and restore() pops.
DefaultDrawingState ==
    [globalCompositeOperation |-> Str("source-over"),
     globalAlpha |-> Num(1),
     lineWidth |-> Num(1),
     strokeStyle |-> Str("#000000"),
     fillStyle |-> Str("#000000"),
     lineCap |-> Str("butt"),
     lineJoin |-> Str("miter")]

InitCtx == [state |-> DefaultDrawingState, stack |-> <<>>]

\* One call on the surface. A dab's centre is (x, y) moved by off along the
\* angle of turn full turns (cos and sin are kept symbolic).
Entry(op, key, val, x, y, r, off, turn) ==
    [op |-> op, key |-> key, val |-> val, x |-> x, y |-> y, r |-> r,
     off |-> off, turn |-> turn]

Plain(op) == Entry(op, "", Undef, Undef, Undef, Undef, Undef, Undef)

\* A render in progress: the surface, the calls made on it so far, whether an
\* error was thrown (nothing runs after it, up to the catch), the number of
\* Math.random() draws made, and the gating record.
StartRender(c) == [ctx |-> c, trace |-> <<>>, threw |-> FALSE, k |-> 0, gate |-> <<>>]

Throw(R) == [R EXCEPT !.threw = TRUE]

CtxCall(R, op) ==
    IF R.threw THEN R ELSE [R EXCEPT !.trace = Append(@, Plain(op))]

CtxSave(R) ==
    IF R.threw THEN R
    ELSE [R EXCEPT !.ctx.stack = Append(@, R.ctx.state),
                   !.trace = Append(@, Plain("save"))]

\* restore() on an empty stack does nothing.
CtxRestore(R) ==
    IF R.threw THEN R
    ELSE IF R.ctx.stack = <<>> THEN [R EXCEPT !.trace = Append(@, Plain("restore"))]
    ELSE [R EXCEPT !.ctx.state = R.ctx.stack[Len(R.ctx.stack)],
                   !.ctx.stack = SubSeq(@, 1, Len(@) - 1),
                   !.trace = Append(@, Plain("restore"))]

\* ctx.key = val
CtxSet(R, key, val) ==
    IF R.threw THEN R
    ELSE [R EXCEPT !.ctx.state[key] = val,
                   !.trace = Append(@, Entry("set", key, val, Undef, Undef, Undef, Undef, Undef))]

\* ctx.moveTo(x, y), ctx.lineTo(x, y)
CtxPath(R, op, x, y) ==
    IF R.threw THEN R
    ELSE [R EXCEPT !.trace = Append(@, Entry(op, "", Undef, x, y, Undef, Undef, Undef))]

\* ctx.arc(cx, cy, r, 0, Math.PI * 2) with (cx, cy) = (x, y) + off * (cos, sin)(2 pi turn)
CtxArc(R, x, y, r, off, turn) ==
    IF R.threw THEN R
    ELSE [R EXCEPT !.trace = Append(@, Entry("arc", "", Undef, x, y, r, off, turn))]

----------------------------------------------------------------------------
(* Math.random() *)

\* The values a draw can give (each in [0, 1)).
RandomValues == <<Rat(0, 1), Rat(1, 4), Rat(1, 2), Rat(3, 4)>>

\* The k-th draw (k = 0, 1, ...) of the stream a render sees, by its seed.
Random(seed, k) == RandomValues[((seed + k * (seed + 1)) % Len(RandomValues)) + 1]

Draw(R, seed) == Random(seed, R.k)
Drawn(R, n) == IF R.threw THEN R ELSE [R EXCEPT !.k = @ + n]

----------------------------------------------------------------------------
(* The stroke algorithms *)

\* A sample whose property reads throw a TypeError.
Nullish(v) == v.t \in {"null", "undefined"}

\* points[i] for the 0-based index i (undefined past the end).
At(points, i) == IF i + 1 \in DOMAIN points.props THEN points.props[i + 1] ELSE Undef

Length(points) == Len(points.props)

\* point.pressure || 1
PressureOf(point) ==
    LET p == Get(<<>>, point, "pressure")
    IN  IF Truthy(p) THEN p ELSE Num(1)

\* size * (1 + (pressure - 0.5) * pressureSensitivity)
AdjustedSize(size, pressure, pressureSensitivity) ==
    Mul(size, Add(Num(1), Mul(Sub(pressure, Rat(1, 2)), pressureSensitivity)))

\* dx * dx + dy * dy
Dist2(x1, y1, x2, y2) ==
    LET dx == Sub(x1, x2)
        dy == Sub(y1, y2)
    IN  Add(Mul(dx, dx), Mul(dy, dy))

\* Math.sqrt of a number that is the square of a rational (the strokes of the
\* path-length algorithm are drawn with such distances); NaN of NaN.
SqrtInt(n) == CHOOSE r \in 0..n : r * r = n
Sqrt(v) == IF IsNum(v) THEN Rat(SqrtInt(v.n), SqrtInt(v.d)) ELSE NaN

\* A faulty variant: Math.sqrt(d2) > minDistance.
MovedEnoughStrict(d2, minDistance) ==
    /\ IsNum(d2)
    /\ IsNum(minDistance)
    /\ \/ minDistance.n < 0
       \/ ~Geq(Mul(minDistance, minDistance), d2)

\* A faulty variant: Math.sqrt(d2) <= minDistance.
MovedEnoughInverted(d2, minDistance) ==
    /\ IsNum(d2)
    /\ IsNum(minDistance)
    /\ minDistance.n >= 0
    /\ Geq(Mul(minDistance, minDistance), d2)

\* Math.sqrt(d2) >= minDistance, for d2 >= 0
MovedEnough(d2, minDistance) ==
    /\ IsNum(d2)
    /\ IsNum(minDistance)
    /\ \/ minDistance.n <= 0
       \/ Geq(d2, Mul(minDistance, minDistance))

\* The style setup the path algorithms share.
PathSetup(R, colorStr, size) ==
    CtxSet(CtxSet(CtxSet(CtxSet(CtxCall(R, "beginPath"),
        "strokeStyle", colorStr), "lineWidth", size), "lineCap", Str("round")),
        "lineJoin", Str("round"))

\* ctx.moveTo(points[0].x, points[0].y)
MoveToFirst(R, points) ==
    LET p == At(points, 0)
    IN  IF Nullish(p) THEN Throw(R)
        ELSE CtxPath(R, "moveTo", Get(<<>>, p, "x"), Get(<<>>, p, "y"))

RECURSIVE LinerLoop(_, _, _, _, _)
LinerLoop(R, points, i, size, pressureSensitivity) ==
    IF R.threw \/ i >= Length(points) THEN R
    ELSE LET point == At(points, i)
         IN  IF Nullish(point) THEN Throw(R)
             ELSE LET adjustedSize == AdjustedSize(size, PressureOf(point), pressureSensitivity)
                      R1 == CtxSet(R, "lineWidth", adjustedSize)
                      R2 == CtxPath(R1, "lineTo", Get(<<>>, point, "x"), Get(<<>>, point, "y"))
                  IN  LinerLoop(R2, points, i + 1, size, pressureSensitivity)

_applyLinerBrush(R, points, colorStr, size, opacity, spacing, scatter, pressureSensitivity) ==
    LET R1 == CtxSet(PathSetup(R, colorStr, size), "globalAlpha", opacity)
        R2 == MoveToFirst(R1, points)
        R3 == LinerLoop(R2, points, 1, size, pressureSensitivity)
    IN  CtxCall(R3, "stroke")

_drawDot(R, x, y, size, color, alpha, off, turn) ==
    LET R1 == CtxCall(R, "beginPath")
        R2 == CtxSet(R1, "globalAlpha", alpha)
        R3 == CtxSet(R2, "fillStyle", color)
        R4 == CtxArc(R3, x, y, Div(size, Num(2)), off, turn)
    IN  CtxCall(R4, "fill")

\* The centre dot, then two satellites at offset size * 0.6 along a random
\* angle and that angle plus a third of a turn.
_drawTripleDot(R, seed, x, y, size, color, alpha) ==
    LET R1 == _drawDot(R, x, y, size, color, alpha, Num(0), Num(0))
        offset == Mul(size, Rat(3, 5))
        angle == Draw(R1, seed)
        R2 == Drawn(R1, 1)
        R3 == _drawDot(R2, x, y, Mul(size, Rat(4, 5)), color, Mul(alpha, Rat(9, 10)), offset, angle)
    IN  _drawDot(R3, x, y, Mul(size, Rat(4, 5)), color, Mul(alpha, Rat(9, 10)),
                 offset, Add(angle, Rat(1, 3)))

\* The jitter of a dab: (Math.random() - 0.5) * scatter * size * amplitude
Scatter(r, scatter, size, amplitude) ==
    Mul(Mul(Mul(Sub(r, Rat(1, 2)), scatter), size), amplitude)

\* The reference position after sample point was stamped at the dab centre (cx, cy):
\* lastX = point.x; lastY = point.y
LastAfterStamp(point, cx, cy) == [x |-> Get(<<>>, point, "x"), y |-> Get(<<>>, point, "y")]

\* The reference position after a sample was skipped: unchanged.
LastAfterSkip(last, point) == last

Gated(R, i, last, stamped) ==
    IF R.threw THEN R
    ELSE [R EXCEPT !.gate = Append(@, [i |-> i, lastX |-> last.x, lastY |-> last.y,
                                       stamped |-> stamped])]

\* The loop of _applyShaderBrush (triple = FALSE, amplitude 2) and of
\* _apply3RSShader (triple = TRUE, amplitude 1).
RECURSIVE DabLoop(_, _, _, _, _, _, _, _, _, _, _, _)
DabLoop(R, seed, points, i, last, colorStr, size, opacity, spacing, scatter, pressureSensitivity, triple) ==
    IF R.threw \/ i >= Length(points) THEN R
    ELSE LET point == At(points, i)
         IN  IF Nullish(point) THEN Throw(R)
             ELSE LET pressure == PressureOf(point)
                      px == Get(<<>>, point, "x")
                      py == Get(<<>>, point, "y")
                      d2 == Dist2(px, py, last.x, last.y)
                  IN  IF MovedEnough(d2, Mul(size, spacing))
                      THEN LET adjustedSize == AdjustedSize(size, pressure, pressureSensitivity)
                               amplitude == IF triple THEN Num(1) ELSE Num(2)
                               cx == Add(px, Scatter(Draw(R, seed), scatter, size, amplitude))
                               cy == Add(py, Scatter(Random(seed, R.k + 1), scatter, size, amplitude))
                               R1 == Drawn(R, 2)
                               alpha == Mul(opacity, pressure)
                               R2 == IF triple
                                     THEN _drawTripleDot(R1, seed, cx, cy, adjustedSize, colorStr, alpha)
                                     ELSE _drawDot(R1, cx, cy, adjustedSize, colorStr, alpha, Num(0), Num(0))
                           IN  DabLoop(Gated(R2, i, last, TRUE), seed, points, i + 1,
                                       LastAfterStamp(point, cx, cy), colorStr, size, opacity,
                                       spacing, scatter, pressureSensitivity, triple)
                      ELSE DabLoop(Gated(R, i, last, FALSE), seed, points, i + 1,
                                   LastAfterSkip(last, point), colorStr, size, opacity,
                                   spacing, scatter, pressureSensitivity, triple)

\* let lastX = points[0].x; let lastY = points[0].y; the initial dab; the loop.
DabStroke(R, seed, points, colorStr, size, opacity, spacing, scatter, pressureSensitivity, triple) ==
    LET p == At(points, 0)
    IN  IF Nullish(p) THEN Throw(R)
        ELSE LET last == [x |-> Get(<<>>, p, "x"), y |-> Get(<<>>, p, "y")]
                 R1 == IF triple
                       THEN _drawTripleDot(R, seed, last.x, last.y, size, colorStr, opacity)
                       ELSE _drawDot(R, last.x, last.y, size, colorStr, opacity, Num(0), Num(0))
             IN  DabLoop(R1, seed, points, 1, last, colorStr, size, opacity, spacing,
                         scatter, pressureSensitivity, triple)

_applyShaderBrush(R, seed, points, colorStr, size, opacity, spacing, scatter, pressureSensitivity) ==
    DabStroke(R, seed, points, colorStr, size, opacity, spacing, scatter, pressureSensitivity, FALSE)

_apply3RSShader(R, seed, points, colorStr, size, opacity, spacing, scatter, pressureSensitivity) ==
    DabStroke(R, seed, points, colorStr, size, opacity, spacing, scatter, pressureSensitivity, TRUE)

\* The decimal text of a number in a template string (the fraction's text stands for it).
NumText(v) ==
    IF IsNum(v)
    THEN IF v.d = 1 THEN ToString(v.n) ELSE ToString(v.n) \o "/" \o ToString(v.d)
    ELSE "NaN"

\* `rgba(${color[0]}, ${color[1]}, ${color[2]}, 1)`: the string, with the texts
\* substituted into it kept in props so that it can be taken apart again.
ColorString(color) ==
    LET r == NumText(color.props[1])
        g == NumText(color.props[2])
        b == NumText(color.props[3])
    IN  [Str("rgba(" \o r \o ", " \o g \o ", " \o b \o ", 1)") EXCEPT !.props = <<r, g, b>>]

\* colorStr.replace('rgba(', '').replace(')', '').split(','): the pieces after
\* the first keep the space that follows each comma.
BaseColor(colorStr) ==
    <<colorStr.props[1], " " \o colorStr.props[2], " " \o colorStr.props[3], " 1">>

RECURSIVE OmbreLoop(_, _, _, _, _, _, _)
OmbreLoop(R, points, i, baseColor, size, opacity, pressureSensitivity) ==
    IF R.threw \/ i >= Length(points) THEN R
    ELSE LET point == At(points, i)
         IN  IF Nullish(point) THEN Throw(R)
             ELSE LET pressure == PressureOf(point)
                      adjustedSize == AdjustedSize(size, pressure, pressureSensitivity)
                      progress == Div(Num(i), Num(Length(points) - 1))
                      adjustedOpacity ==
                          Mul(Mul(opacity, Sub(Num(1), Mul(progress, Rat(3, 10)))), pressure)
                      px == Get(<<>>, point, "x")
                      py == Get(<<>>, point, "y")
                      R1 == CtxSet(R, "lineWidth", adjustedSize)
                      R2 == CtxSet(R1, "globalAlpha", adjustedOpacity)
                      R3 == CtxSet(R2, "strokeStyle",
                                   Str("rgba(" \o baseColor[1] \o ", " \o baseColor[2] \o ", "
                                       \o baseColor[3] \o ", " \o NumText(adjustedOpacity) \o ")"))
                      R4 == CtxCall(CtxPath(R3, "lineTo", px, py), "stroke")
                      R5 == IF i < Length(points) - 1
                            THEN CtxPath(CtxCall(R4, "beginPath"), "moveTo", px, py)
                            ELSE R4
                  IN  OmbreLoop(R5, points, i + 1, baseColor, size, opacity, pressureSensitivity)

\* A faulty variant: a stroke of one sample is not turned away.
_applyOmbreLipOutlineUnguarded(R, points, colorStr, size, opacity, spacing, pressureSensitivity) ==
    OmbreLoop(MoveToFirst(PathSetup(R, colorStr, size), points), points, 1, BaseColor(colorStr),
              size, opacity, pressureSensitivity)

_applyOmbreLipOutline(R, points, colorStr, size, opacity, spacing, pressureSensitivity) ==
    IF Length(points) < 2 THEN R
    ELSE LET R1 == PathSetup(R, colorStr, size)
             R2 == MoveToFirst(R1, points)
         IN  OmbreLoop(R2, points, 1, BaseColor(colorStr), size, opacity, pressureSensitivity)

\* The first pass of _applyMicrobladeNatural: the path length up to sample i,
\* or Undef when a sample it reads is null (the read throws).
RECURSIVE PathLength(_, _)
PathLength(points, i) ==
    IF i = 0 THEN Num(0)
    ELSE LET a == At(points, i - 1)
             b == At(points, i)
             before == PathLength(points, i - 1)
         IN  IF before = Undef \/ Nullish(a) \/ Nullish(b) THEN Undef
             ELSE Add(before, Sqrt(Dist2(Get(<<>>, b, "x"), Get(<<>>, b, "y"),
                                         Get(<<>>, a, "x"), Get(<<>>, a, "y"))))

\* A faulty variant: the width grows to the end of the stroke.
TaperFactorRising(progress) == progress

\* 4 * progress * (1 - progress)
TaperFactor(progress) == Mul(Mul(Num(4), progress), Sub(Num(1), progress))

RECURSIVE MicrobladeLoop(_, _, _, _, _, _, _)
MicrobladeLoop(R, points, i, currentLength, totalLength, size, pressureSensitivity) ==
    IF R.threw \/ i >= Length(points) THEN R
    ELSE LET point == At(points, i)
             prevPoint == At(points, i - 1)
         IN  IF Nullish(point) \/ Nullish(prevPoint) THEN Throw(R)
             ELSE LET pressure == PressureOf(point)
                      segmentLength ==
                          Sqrt(Dist2(Get(<<>>, point, "x"), Get(<<>>, point, "y"),
                                     Get(<<>>, prevPoint, "x"), Get(<<>>, prevPoint, "y")))
                      newLength == Add(currentLength, segmentLength)
                      progress == Div(newLength, totalLength)
                      adjustedSize ==
                          Mul(Mul(size, TaperFactor(progress)),
                              Add(Num(1), Mul(Sub(pressure, Rat(1, 2)), pressureSensitivity)))
                      R1 == CtxSet(R, "lineWidth", adjustedSize)
                      R2 == CtxPath(R1, "lineTo", Get(<<>>, point, "x"), Get(<<>>, point, "y"))
                  IN  MicrobladeLoop(R2, points, i + 1, newLength, totalLength, size,
                                     pressureSensitivity)

_applyMicrobladeNatural(R, points, colorStr, size, opacity, spacing, pressureSensitivity) ==
    IF Length(points) < 2 THEN R
    ELSE LET R1 == CtxSet(CtxSet(CtxSet(CtxSet(CtxCall(R, "beginPath"),
                       "strokeStyle", colorStr), "lineCap", Str("round")),
                       "lineJoin", Str("round")), "globalAlpha", opacity)
             totalLength == PathLength(points, Length(points) - 1)
         IN  IF totalLength = Undef THEN Throw(R1)
             ELSE LET R2 == MoveToFirst(R1, points)
                  IN  CtxCall(MicrobladeLoop(R2, points, 1, Num(0), totalLength, size,
                                             pressureSensitivity), "stroke")

RECURSIVE DefaultLoop(_, _, _)
DefaultLoop(R, points, i) ==
    IF R.threw \/ i >= Length(points) THEN R
    ELSE LET point == At(points, i)
         IN  IF Nullish(point) THEN Throw(R)
             ELSE DefaultLoop(CtxPath(R, "lineTo", Get(<<>>, point, "x"), Get(<<>>, point, "y")),
                              points, i + 1)

_applyDefaultBrush(R, points, colorStr, size, opacity) ==
    LET R1 == CtxSet(PathSetup(R, colorStr, size), "globalAlpha", opacity)
        R2 == MoveToFirst(R1, points)
    IN  CtxCall(DefaultLoop(R2, points, 1), "stroke")

\* switch (this.currentBrush.id)
_applySpecializedBrush(R, seed, brushId, points, colorStr, size, opacity, spacing, scatter, pressureSensitivity) ==
    CASE brushId = Str("shader3RS") ->
            _apply3RSShader(R, seed, points, colorStr, size, opacity, spacing, scatter, pressureSensitivity)
      [] brushId = Str("ombreLipOutline") ->
            _applyOmbreLipOutline(R, points, colorStr, size, opacity, spacing, pressureSensitivity)
      [] brushId = Str("microbladeNatural") ->
            _applyMicrobladeNatural(R, points, colorStr, size, opacity, spacing, pressureSensitivity)
      [] OTHER ->
            _applyShaderBrush(R, seed, points, colorStr, size, opacity, spacing, scatter, pressureSensitivity)

\* A faulty variant: the empty stroke is not rejected.
InvalidCallNoLength(ctxArg, points, brush) ==
    ~Truthy(ctxArg) \/ ~Truthy(points) \/ ~Truthy(brush)

\* The early return of applyBrushStroke:
\* !ctx || !points || points.length === 0 || !this.currentBrush
InvalidCall(ctxArg, points, brush) ==
    \/ ~Truthy(ctxArg)
    \/ ~Truthy(points)
    \/ Length(points) = 0
    \/ ~Truthy(brush)

\* switch (type)
Dispatch(R, h, brush, seed, points, colorStr) ==
    LET size == Get(h, brush, "size")
        opacity == Get(h, brush, "opacity")
        spacing == Get(h, brush, "spacing")
        scatter == Get(h, brush, "scatter")
        pressureSensitivity == Get(h, brush, "pressureSensitivity")
        type == Get(h, brush, "type")
    IN  CASE type = Str("liner") ->
                _applyLinerBrush(R, points, colorStr, size, opacity, spacing, scatter, pressureSensitivity)
          [] type = Str("shader") ->
                _applyShaderBrush(R, seed, points, colorStr, size, opacity, spacing, scatter, pressureSensitivity)
          [] type = Str("specialized") ->
                _applySpecializedBrush(R, seed, Get(h, brush, "id"), points, colorStr, size,
                                       opacity, spacing, scatter, pressureSensitivity)
          [] OTHER ->
                _applyDefaultBrush(R, points, colorStr, size, opacity)

\* The try block of applyBrushStroke, up to the return or the throw.
TryRender(c, h, brush, seed, points, color) ==
    LET R1 == CtxSet(CtxSave(StartRender(c)), "globalCompositeOperation", Str("source-over"))
    IN  IF Nullish(color) THEN Throw(R1)
        ELSE CtxRestore(Dispatch(R1, h, brush, seed, points, ColorString(color)))

\* A faulty variant: a render leaves the width it drew with in the selected preset.
applyBrushStrokeRemembering(ctxArg, points, color, seed) ==
    /\ call' = Called("applyBrushStroke", <<ctxArg, points, color>>)
    /\ IF InvalidCall(ctxArg, points, currentBrush)
       THEN /\ ret' = Bool(FALSE)
            /\ trace' = <<>>
            /\ gate' = <<>>
            /\ UNCHANGED <<ctx, heap>>
       ELSE \E R \in {TryRender(ctx, heap, currentBrush, seed, points, color)} :
                /\ ret' = Bool(~R.threw)
                /\ ctx' = R.ctx
                /\ trace' = R.trace
                /\ gate' = R.gate
                /\ heap' = MergeSettings(heap, currentBrush, Obj([size |-> R.ctx.state.lineWidth]))
    /\ UNCHANGED <<currentBrush, userSubscription>>
    /\ UNCHANGED detectorVars

\* applyBrushStroke(ctx, points, color) on the surface (ctxArg a reference to
\* it) or on no surface (ctxArg null); seed is the random stream the call sees.
applyBrushStroke(ctxArg, points, color, seed) ==
    /\ call' = Called("applyBrushStroke", <<ctxArg, points, color>>)
    /\ IF InvalidCall(ctxArg, points, currentBrush)
       THEN /\ ret' = Bool(FALSE)
            /\ trace' = <<>>
            /\ gate' = <<>>
            /\ UNCHANGED ctx
       ELSE \E R \in {TryRender(ctx, heap, currentBrush, seed, points, color)} :
                /\ ret' = Bool(~R.threw)
                /\ ctx' = R.ctx
                /\ trace' = R.trace
                /\ gate' = R.gate
    /\ UNCHANGED <<heap, currentBrush, userSubscription>>
    /\ UNCHANGED detectorVars

----------------------------------------------------------------------------
(* The face detector: the loading of its model *)

\* The largest number of calls made on one detector.
MaxCalls == 4

\* A call on the detector: its operation, where it stands ("backend": between
\* isInitializing = true and the call of createDetector; "creating": awaiting
\* createDetector; "estimating": awaiting estimateFaces; "done"), whether it
\* started a model-creation attempt, whether it has called createDetector, and
\* what it returned.
Task(op, pc, attempt, result) ==
    [op |-> op, pc |-> pc, attempt |-> attempt, created |-> FALSE, ret |-> result]

\* The model-creation attempts in flight: the calls suspended inside the try
\* block of initialize.
InFlight == {t \in DOMAIN tasks : tasks[t].pc \in {"backend", "creating"}}

\* The calls that have called createDetector.
Created == {t \in DOMAIN tasks : tasks[t].created}

\* A faulty variant: only a loaded model makes initialize return early.
AlreadyStartedLoadedOnly == isModelLoaded

\* The condition of initialize's early return.
AlreadyStarted == isModelLoaded \/ isInitializing

\* initialize(), up to its early return or its first await.
initialize ==
    /\ Len(tasks) < MaxCalls
    /\ IF AlreadyStarted
       THEN /\ tasks' = Append(tasks, Task("initialize", "done", FALSE,
                                           IF isModelLoaded THEN "true" ELSE "false"))
            /\ UNCHANGED isInitializing
       ELSE /\ isInitializing' = TRUE
            /\ tasks' = Append(tasks, Task("initialize", "backend", TRUE, "pending"))
    /\ UNCHANGED <<model, isModelLoaded>>
    /\ UNCHANGED brushVars

\* detectFace(input), up to its first await: with no model loaded it calls
\* initialize(), whose early return gives it isModelLoaded, false.
detectFace ==
    /\ Len(tasks) < MaxCalls
    /\ IF isModelLoaded
       THEN /\ tasks' = Append(tasks, Task("detectFace", "estimating", FALSE, "pending"))
            /\ UNCHANGED isInitializing
       ELSE IF AlreadyStarted
            THEN /\ tasks' = Append(tasks, Task("detectFace", "done", FALSE,
                                                "Model initialization failed"))
                 /\ UNCHANGED isInitializing
            ELSE /\ isInitializing' = TRUE
                 /\ tasks' = Append(tasks, Task("detectFace", "backend", TRUE, "pending"))
    /\ UNCHANGED <<model, isModelLoaded>>
    /\ UNCHANGED brushVars

\* The backend of attempt t is set up: the attempt calls createDetector.
createDetector(t) ==
    /\ tasks[t].pc = "backend"
    /\ tasks' = [tasks EXCEPT ![t].pc = "creating", ![t].created = TRUE]
    /\ UNCHANGED <<model, isModelLoaded, isInitializing>>
    /\ UNCHANGED brushVars

\* createDetector resolves: attempt t stores the model and the flags, and
\* initialize returns true; a detectFace that was waiting for it goes on to
\* estimateFaces.
modelLoaded(t) ==
    /\ tasks[t].pc = "creating"
    /\ model' = t
    /\ isModelLoaded' = TRUE
    /\ isInitializing' = FALSE
    /\ tasks' = [tasks EXCEPT ![t] = IF @.op = "initialize"
                                     THEN [@ EXCEPT !.pc = "done", !.ret = "true"]
                                     ELSE [@ EXCEPT !.pc = "estimating"]]
    /\ UNCHANGED brushVars

\* An await of attempt t rejects: the catch block of initialize.
initializeFails(t) ==
    /\ tasks[t].pc \in {"backend", "creating"}
    /\ isInitializing' = FALSE
    /\ tasks' = [tasks EXCEPT ![t].pc = "done",
                              ![t].ret = IF tasks[t].op = "initialize" THEN "false"
                                         ELSE "Model initialization failed"]
    /\ UNCHANGED <<model, isModelLoaded>>
    /\ UNCHANGED brushVars

\* estimateFaces resolves with a face, resolves with none, or rejects.
estimateFaces(t) ==
    /\ tasks[t].pc = "estimating"
    /\ \E outcome \in {"face", "No face detected", "error"} :
           tasks' = [tasks EXCEPT ![t].pc = "done", ![t].ret = outcome]
    /\ UNCHANGED <<model, isModelLoaded, isInitializing>>
    /\ UNCHANGED brushVars

\* dispose(): the model is disposed of and marked as not loaded; this.model and
\* isInitializing stay as they are.
dispose ==
    /\ Len(tasks) < MaxCalls
    /\ isModelLoaded' = FALSE
    /\ tasks' = Append(tasks, Task("dispose", "done", FALSE, "undefined"))
    /\ UNCHANGED <<model, isInitializing>>
    /\ UNCHANGED brushVars

----------------------------------------------------------------------------
(* The face detector: the symmetry score *)

\* value[key] of a value that lives in no heap.
Prop(value, key) == Get(<<>>, value, key)

\* Math.round of a number: the nearest integer, a half going up; NaN of NaN.
Round(v) == IF IsNum(v) THEN Num((2 * v.n + v.d) \div (2 * v.d)) ELSE NaN

\* Math.max(0, Math.min(100, v)); NaN of NaN.
Clamp(v) ==
    IF ~IsNum(v) THEN NaN
    ELSE IF Geq(Num(0), v) THEN Num(0)
    ELSE IF Geq(v, Num(100)) THEN Num(100)
    ELSE v

\* Whether points.reduce(...) of calculateCentroid throws: points is no array,
\* or one of its elements is null or undefined.
CentroidThrows(points) ==
    \/ points.t # "array"
    \/ \E i \in DOMAIN points.props : Nullish(points.props[i])

\* The sum of the key coordinate of points[1..i], from 0.
RECURSIVE SumOf(_, _, _)
SumOf(points, key, i) ==
    IF i = 0 THEN Num(0) ELSE Add(SumOf(points, key, i - 1), Prop(points.props[i], key))

calculateCentroid(points) ==
    [x |-> Div(SumOf(points, "x", Length(points)), Num(Length(points))),
     y |-> Div(SumOf(points, "y", Length(points)), Num(Length(points)))]

\* distanceToLine(point, line): the distance to the segment, every comparison
\* false on NaN. Each intermediate value is computed once, as a constant is.
distanceToLine(point, line) ==
    LET C == Sub(line.x2, line.x1)
        D == Sub(line.y2, line.y1)
        Param(dot, lenSq) == IF lenSq # Num(0) THEN Div(dot, lenSq) ELSE Num(-1)
        Nearest(param, c, d) ==
            IF IsNum(param) /\ param.n < 0 THEN <<line.x1, line.y1>>
            ELSE IF IsNum(param) /\ param.n > param.d THEN <<line.x2, line.y2>>
            ELSE <<Add(line.x1, Mul(param, c)), Add(line.y1, Mul(param, d))>>
    IN  CHOOSE dist \in
            {Sqrt(d2) : d2 \in
                {Dist2(point.x, point.y, n[1], n[2]) : n \in
                    UNION {{Nearest(param, c, d) : param \in
                                {Param(Add(Mul(Sub(point.x, line.x1), c), Mul(Sub(point.y, line.y1), d)),
                                       Add(Mul(c, c), Mul(d, d)))}} : c \in {C}, d \in {D}}}} : TRUE

\* Whether the try block of calculateSymmetryScore reads no reference point at
\* all: landmarks or landmarks.symmetryReferences is null or undefined.
NoReferences(landmarks) ==
    Nullish(landmarks) \/ Nullish(Prop(landmarks, "symmetryReferences"))

\* if (!refs.midForehead || !refs.noseTip || !refs.midChin)
ReferenceMissing(landmarks) ==
    \E name \in {"midForehead", "noseTip", "midChin"} :
        ~Truthy(Prop(Prop(landmarks, "symmetryReferences"), name))

\* landmarks.browLeft.length > 0 && landmarks.browRight.length > 0
BrowPair(landmarks) ==
    /\ Prop(landmarks, "browLeft").t = "array" /\ Length(Prop(landmarks, "browLeft")) > 0
    /\ Prop(landmarks, "browRight").t = "array" /\ Length(Prop(landmarks, "browRight")) > 0

\* landmarks.lipOuter.length > 0
LipGroup(landmarks) ==
    Prop(landmarks, "lipOuter").t = "array" /\ Length(Prop(landmarks, "lipOuter")) > 0

\* Whether the try block of calculateSymmetryScore throws: the length of a
\* group that is not there is read (browRight only when browLeft has points),
\* or a group that contributes has no centroid.
Raises(landmarks) ==
    \/ NoReferences(landmarks)
    \/ /\ ~ReferenceMissing(landmarks)
       /\ \/ Nullish(Prop(landmarks, "browLeft"))
          \/ /\ Prop(landmarks, "browLeft").t = "array"
             /\ Length(Prop(landmarks, "browLeft")) > 0
             /\ Nullish(Prop(landmarks, "browRight"))
          \/ /\ BrowPair(landmarks)
             /\ \/ CentroidThrows(Prop(landmarks, "browLeft"))
                \/ CentroidThrows(Prop(landmarks, "browRight"))
          \/ Nullish(Prop(landmarks, "lipOuter"))
          \/ LipGroup(landmarks) /\ CentroidThrows(Prop(landmarks, "lipOuter"))

calculateSymmetryScore(landmarks) ==
    IF Raises(landmarks) THEN Num(80)
    ELSE IF ReferenceMissing(landmarks) THEN Num(80)
    ELSE LET refs == Prop(landmarks, "symmetryReferences")
             midline == [x1 |-> Prop(Prop(refs, "midForehead"), "x"),
                         y1 |-> Prop(Prop(refs, "midForehead"), "y"),
                         x2 |-> Prop(Prop(refs, "midChin"), "x"),
                         y2 |-> Prop(Prop(refs, "midChin"), "y")]
             \* distanceToLine(calculateCentroid(landmarks[group]), midline)
             Distances(group) ==
                 {distanceToLine(center, line) :
                     center \in {calculateCentroid(Prop(landmarks, group))}, line \in {midline}}
             \* Math.abs(leftDist - rightDist)
             browDeviations ==
                 {IF IsNum(diff) THEN Rat(Abs(diff.n), diff.d) ELSE NaN :
                     diff \in {Sub(leftDist, rightDist) :
                                  leftDist \in Distances("browLeft"),
                                  rightDist \in Distances("browRight")}}
             afterBrows == IF BrowPair(landmarks) THEN browDeviations ELSE {Num(0)}
             totalDeviations ==
                 IF LipGroup(landmarks)
                 THEN {Add(total, lipDeviation) :
                          total \in afterBrows, lipDeviation \in Distances("lipOuter")}
                 ELSE afterBrows
             pointCount == (IF BrowPair(landmarks) THEN 1 ELSE 0) + (IF LipGroup(landmarks) THEN 1 ELSE 0)
         IN  IF pointCount = 0 THEN Num(80)
             ELSE CHOOSE rounded \in
                      {Round(score) : score \in
                          {Clamp(raw) : raw \in
                              {Sub(Num(100), Mul(Div(avgDeviation, Num(20)), Num(100))) :
                                  avgDeviation \in {Div(totalDeviation, Num(pointCount)) :
                                                       totalDeviation \in totalDeviations}}}} : TRUE

----------------------------------------------------------------------------
(* Inputs *)

\* The longest stroke of a call in SpecRender (the dashboard renders two-point strokes).
MaxPoints == 2
\* The longest stroke of a call in SpecGate.
MaxGatePoints == 4
\* The most saved drawing states the surface is left with.
MaxSavedStates == 1
\* The number of random streams a call can see.
MaxSeeds == 1

Seeds == 0..(MaxSeeds - 1)

Sample(x, y) == Obj([x |-> Num(x), y |-> Num(y)])
SampleP(x, y, pressure) == Obj([x |-> Num(x), y |-> Num(y), pressure |-> pressure])

\* The samples of SpecRender's strokes: without a pressure, with one, with a
\* pressure of 0, and a null entry.
Samples == {Sample(0, 0), SampleP(2, 0, Rat(1, 2)), SampleP(2, 0, Num(0)), Null}

StrokesUpTo(samples, n) == UNION {[1..k -> samples] : k \in 0..n}

Strokes == {Arr(p) : p \in StrokesUpTo(Samples, MaxPoints)} \cup {Null}

\* The samples of SpecGate's strokes: positions that let a stroke run straight
\* or turn back, with the pressure the dashboard reports.
GateSamples ==
    {SampleP(0, 0, Num(1)), SampleP(0, 1, Num(1)), SampleP(1, 1, Num(1)), SampleP(2, 1, Num(1)),
     SampleP(2, 2, Num(1))}

\* A stroke of SpecGate starts at the origin and goes on over the samples.
GateStrokes ==
    {Arr(<<SampleP(0, 0, Num(1))>> \o p) : p \in StrokesUpTo(GateSamples, MaxGatePoints - 1)}

Color == Arr(<<Num(121), Num(85), Num(61)>>)

Surface == Ref("ctx")

\* The calls of applyBrushStroke in SpecRender: every stroke on the surface
\* under every random stream, and short strokes with no surface or no color.
ApplyInputs ==
    {<<Surface, points, Color, seed>> : points \in Strokes, seed \in Seeds}
    \cup {<<c[1], points, c[2], 0>> :
            c \in {<<Null, Color>>, <<Surface, Null>>},
            points \in {Arr(p) : p \in StrokesUpTo(Samples, 1)}}

Levels == {Str("free"), Str("pro"), Str("premium")}

CategoryInputs == {"basic", "advanced", "constructor", "nope"}

BrushIdInputs ==
    {"standardLiner", "standardShader", "powderBrow", "shader3RS", "ombreLipOutline",
     "microbladeNatural", "constructor", "toString", "nope"}

FeatureInputs == DOMAIN features.props \cup {"constructor", "toString", "nope"}

\* The settings objects of Spec's updateCurrentBrushSettings calls.
SettingsInputs ==
    {Obj([size |-> Num(2)]),
     Obj([type |-> Str("specialized"), id |-> Str("shader3RS")]),
     Obj([toString |-> Num(1)]),
     Obj([nope |-> Num(1)])}

\* The selections and settings of SpecRender.
RenderBrushInputs ==
    {<<"basic", "standardLiner">>, <<"basic", "standardShader">>, <<"basic", "powderBrow">>,
     <<"advanced", "shader3RS">>, <<"advanced", "ombreLipOutline">>,
     <<"advanced", "microbladeNatural">>, <<"basic", "constructor">>}

RenderSettingsInputs ==
    {Obj([size |-> Num(2), nope |-> Num(1)]),
     Obj([type |-> Str("specialized"), id |-> Str("shader3RS")])}

\* The spacings and the size SpecGate's overrides set.
GateSpacings == {Rat(0, 1), Rat(35, 100), Rat(1, 2)}

GateSettingsInputs == {Obj([spacing |-> sp]) : sp \in GateSpacings} \cup {Obj([size |-> Num(4)])}

GateBrushInputs == {<<"basic", "standardShader">>, <<"advanced", "shader3RS">>}

----------------------------------------------------------------------------
(* The specifications *)

Init ==
    /\ heap = InitHeap
    /\ currentBrush = Null
    /\ userSubscription = Str("free")
    /\ ctx = InitCtx
    /\ call = Called("constructor", <<>>)
    /\ ret = Undef
    /\ trace = <<>>
    /\ gate = <<>>
    /\ model = 0
    /\ isModelLoaded = FALSE
    /\ isInitializing = FALSE
    /\ tasks = <<>>

SetUserSubscription == \E level \in Levels : setUserSubscription(level)

SelectBrush == \E category \in CategoryInputs, brushId \in BrushIdInputs : selectBrush(category, brushId)

UpdateCurrentBrushSettings == \E settings \in SettingsInputs : updateCurrentBrushSettings(settings)

IsFeatureAvailable == \E featureId \in FeatureInputs : isFeatureAvailable(featureId)

\* The session: every operation but the renderer, over names that exist, names
\* that do not, and names every object inherits.
Next ==
    \/ SetUserSubscription
    \/ getAvailableBrushes
    \/ SelectBrush
    \/ getCurrentBrush
    \/ UpdateCurrentBrushSettings
    \/ IsFeatureAvailable

Spec == Init /\ [][Next]_vars

\* The session with the renderer.
RenderSelectBrush == \E b \in RenderBrushInputs : selectBrush(b[1], b[2])

RenderUpdateSettings == \E settings \in RenderSettingsInputs : updateCurrentBrushSettings(settings)

ApplyBrushStroke ==
    /\ Len(ctx.stack) < MaxSavedStates
    /\ \E c \in ApplyInputs : applyBrushStroke(c[1], c[2], c[3], c[4])

RenderNext ==
    \/ SetUserSubscription
    \/ getAvailableBrushes
    \/ RenderSelectBrush
    \/ RenderUpdateSettings
    \/ ApplyBrushStroke

SpecRender == Init /\ [][RenderNext]_vars

\* The session that stays on the free tier: the selections, overrides and
\* renders of SpecRender, and no call of setUserSubscription.
FreeNext ==
    \/ RenderSelectBrush
    \/ RenderUpdateSettings
    \/ ApplyBrushStroke

SpecFree == Init /\ [][FreeNext]_vars

\* The dab renders: shader-family presets, spacing and size overrides, longer
\* strokes over a grid.
GateSelectBrush == \E b \in GateBrushInputs : selectBrush(b[1], b[2])

GateUpdateSettings == \E settings \in GateSettingsInputs : updateCurrentBrushSettings(settings)

\* No stroke of GateStrokes makes a render throw, so a render here leaves the
\* session and the surface as they were: a render that follows a render reaches
\* no state that the first one could not reach, and is left out.
GateApplyBrushStroke ==
    /\ call.op # "applyBrushStroke"
    /\ \E points \in GateStrokes, seed \in Seeds : applyBrushStroke(Surface, points, Color, seed)

GateNext ==
    \/ SetUserSubscription
    \/ GateSelectBrush
    \/ GateUpdateSettings
    \/ GateApplyBrushStroke

SpecGate == Init /\ [][GateNext]_vars

\* The longest stroke of a call in SpecPath.
MaxPathPoints == 4

\* The samples of SpecPath's strokes: along one line, at whole distances, with
\* and without a pressure.
PathSamples ==
    {Sample(0, 0), Sample(2, 0), SampleP(2, 0, Rat(1, 2)), Sample(3, 0), Sample(4, 0)}

\* A stroke of SpecPath starts at the origin and goes on over the samples.
PathStrokes == {Arr(<<Sample(0, 0)>> \o p) : p \in StrokesUpTo(PathSamples, MaxPathPoints - 1)}

\* The path renders: the liner, the gradient outline, the tapered stroke, and
\* presets whose family or variant an override has made unknown.
PathSelectBrush ==
    \E b \in {<<"basic", "standardLiner">>, <<"advanced", "ombreLipOutline">>,
              <<"advanced", "microbladeNatural">>} : selectBrush(b[1], b[2])

PathUpdateSettings ==
    \E settings \in {Obj([type |-> Str("stamp")]), Obj([type |-> Str("specialized")])} :
        updateCurrentBrushSettings(settings)

\* As in SpecGate, no stroke of PathStrokes makes a render throw, and a render
\* that follows a render is left out.
PathApplyBrushStroke ==
    /\ call.op # "applyBrushStroke"
    /\ \E points \in PathStrokes, seed \in Seeds : applyBrushStroke(Surface, points, Color, seed)

PathNext ==
    \/ SetUserSubscription
    \/ PathSelectBrush
    \/ PathUpdateSettings
    \/ PathApplyBrushStroke

SpecPath == Init /\ [][PathNext]_vars

\* The detector: calls of initialize, detectFace and dispose, and the awaited
\* steps of the calls in flight, in every order.
CreateDetector == \E t \in DOMAIN tasks : createDetector(t)

ModelLoaded == \E t \in DOMAIN tasks : modelLoaded(t)

InitializeFails == \E t \in DOMAIN tasks : initializeFails(t)

EstimateFaces == \E t \in DOMAIN tasks : estimateFaces(t)

DetectorNext ==
    \/ initialize
    \/ detectFace
    \/ dispose
    \/ CreateDetector
    \/ ModelLoaded
    \/ InitializeFails
    \/ EstimateFaces

SpecDetector == Init /\ [][DetectorNext]_vars

\* A landmark as extractPMULandmarks writes it.
Landmark(x, y) == Obj([x |-> Num(x), y |-> Num(y), z |-> Num(0)])

\* The reference points of a call: a vertical midline with the groups beside
\* it, a midline of no length, a midline above and one below the groups; a
\* reference point missing; a reference point with no coordinates; none.
ReferenceInputs ==
    {Obj([midForehead |-> Landmark(0, 0), noseTip |-> Landmark(0, 5), midChin |-> Landmark(0, 10)]),
     Obj([midForehead |-> Landmark(0, 0), noseTip |-> Landmark(0, 0), midChin |-> Landmark(0, 0)]),
     Obj([midForehead |-> Landmark(0, 0), noseTip |-> Landmark(0, -5), midChin |-> Landmark(0, -10)]),
     Obj([midForehead |-> Landmark(0, -10), noseTip |-> Landmark(0, -5), midChin |-> Landmark(0, 0)]),
     Obj([noseTip |-> Landmark(0, 5), midChin |-> Landmark(0, 10)]),
     Obj([midForehead |-> Landmark(0, 0), midChin |-> Landmark(0, 10)]),
     Obj([midForehead |-> Landmark(0, 0), noseTip |-> Landmark(0, 5)]),
     Obj([midForehead |-> Obj(<<>>), noseTip |-> Landmark(0, 5), midChin |-> Landmark(0, 10)]),
     Undef}

\* The points of a group: not there, none, one or two on either side of the
\* midline, one far from it, one with no x, a null.
GroupInputs ==
    {Undef, Arr(<<>>), Arr(<<Landmark(3, 4)>>), Arr(<<Landmark(-3, 4)>>),
     Arr(<<Landmark(3, 4), Landmark(6, 8)>>), Arr(<<Landmark(-3, 4), Landmark(-6, 8)>>),
     Arr(<<Landmark(24, 7)>>), Arr(<<Obj([y |-> Num(5)])>>), Arr(<<Null>>)}

LandmarksInputs ==
    {Undef} \cup
    {Obj([symmetryReferences |-> refs, browLeft |-> l[1], browRight |-> l[2], lipOuter |-> l[3]]) :
        refs \in ReferenceInputs, l \in GroupInputs \X GroupInputs \X GroupInputs}

\* calculateSymmetryScore(landmarks), called on the detector. The score depends
\* on landmarks alone, so a call that follows a call reaches no state that the
\* first one could not reach, and is left out.
CalculateSymmetryScore ==
    /\ call.op # "calculateSymmetryScore"
    /\ \E landmarks \in LandmarksInputs :
           /\ call' = Called("calculateSymmetryScore", <<landmarks>>)
           /\ ret' = calculateSymmetryScore(landmarks)
    /\ UNCHANGED <<heap, currentBrush, userSubscription, ctx, trace, gate>>
    /\ UNCHANGED detectorVars

SpecSymmetry == Init /\ [][CalculateSymmetryScore]_vars

----------------------------------------------------------------------------
(* Properties *)

NumCalls(t, op) == Cardinality({i \in DOMAIN t : t[i].op = op})

Field(v, key) == Get(<<>>, v, key)

\* The catalog's entries: the presets the constructor lists.
IsCategory(category) == category \in DOMAIN brushPresets.props
IsPreset(category, brushId) ==
    IsCategory(category) /\ brushId \in DOMAIN brushPresets.props[category].props

\* The preset of an entry, as constructed.
CatalogPreset(category, brushId) == CatalogObjects[brushPresets.props[category].props[brushId].s]

\* C1: on every exit path of applyBrushStroke the surface's save() and restore()
\* calls balance; no call leaves a saved state behind or a drawing-state field
\* changed, so the surface is always as it was before any render.
C1_SaveRestoreBalanced ==
    /\ call.op = "applyBrushStroke" => NumCalls(trace, "save") = NumCalls(trace, "restore")
    /\ ctx = InitCtx

\* C2: selectBrush resolves existence before entitlement, for every pair of
\* strings: a category that is no catalog category fails with invalid_category, an
\* id that is no preset of a catalog category fails with invalid_brush, and only a
\* catalog entry is ever selected.
C2_ExistenceFirst ==
    call.op = "selectBrush" =>
        LET category == call.args[1].s
            brushId == call.args[2].s
        IN  /\ ~IsCategory(category) =>
                  Field(ret, "success") = Bool(FALSE) /\ Field(ret, "reason") = Str("invalid_category")
            /\ IsCategory(category) /\ ~IsPreset(category, brushId) =>
                  Field(ret, "success") = Bool(FALSE) /\ Field(ret, "reason") = Str("invalid_brush")
            /\ Field(ret, "success") = Bool(TRUE) => IsPreset(category, brushId)

\* C3: selectBrush on a catalog preset succeeds exactly when the preset is free
\* or the tier is 'pro'; a pro preset under the free tier is denied with
\* subscription_required and the upgrade prompt of that preset.
C3_TierGate ==
    call.op = "selectBrush" /\ IsPreset(call.args[1].s, call.args[2].s) =>
        LET preset == CatalogPreset(call.args[1].s, call.args[2].s)
            entitled == preset.props.subscription = Str("free") \/ userSubscription = Str("pro")
            prompt == Field(ret, "upgradePrompt")
        IN  /\ Field(ret, "success") = Bool(entitled)
            /\ ~entitled =>
                  /\ Field(ret, "reason") = Str("subscription_required")
                  /\ prompt.t = "object"
                  /\ Field(prompt, "title").t = "string"
                  /\ Field(prompt, "title") # Field(Field(prompts, "default"), "title")
                  /\ call.args[2].s = "shader3RS" =>
                        Field(prompt, "title") = Str("Unlock 3RS Shader Brush")

C3_Witness ==
    /\ call = Called("selectBrush", <<Str("advanced"), Str("shader3RS")>>)
    /\ userSubscription = Str("free")
    /\ Field(ret, "reason") = Str("subscription_required")

\* C4: updateCurrentBrushSettings returns false and changes nothing when no
\* brush is selected; otherwise the selected preset keeps its set of fields: a
\* key that is one of its fields gets the new value, any other key is ignored.
C4_UnknownKeysIgnored ==
    [][call'.op = "updateCurrentBrushSettings" =>
          IF currentBrush = Null
          THEN ret' = Bool(FALSE) /\ heap' = heap /\ currentBrush' = Null
          ELSE LET before == Deref(heap, currentBrush).props
                   after == Deref(heap', currentBrush').props
                   settings == call'.args[1].props
               IN  /\ DOMAIN after = DOMAIN before
                   /\ \A k \in DOMAIN before :
                         after[k] = IF k \in DOMAIN settings THEN settings[k] ELSE before[k]]_vars

\* C5: the session never changes the catalog: every catalog preset keeps the
\* fields it was constructed with, and a successful selectBrush stores an
\* object of its own holding the catalog's values and the (category, id) tag.
C5_CatalogImmutable ==
    /\ \A a \in CatalogAddrs : heap[a] = CatalogObjects[a]
    /\ currentBrush # Null => currentBrush.t = "ref" /\ currentBrush.s \notin CatalogAddrs
    /\ call.op = "selectBrush" /\ Field(ret, "success") = Bool(TRUE)
          /\ IsPreset(call.args[1].s, call.args[2].s) =>
            LET preset == CatalogPreset(call.args[1].s, call.args[2].s)
                selected == Deref(heap, currentBrush).props
            IN  /\ DOMAIN selected = DOMAIN preset.props \cup {"id", "category"}
                /\ \A k \in DOMAIN preset.props : selected[k] = preset.props[k]
                /\ selected["id"] = call.args[2]
                /\ selected["category"] = call.args[1]

\* An override has changed the selected copy of a preset, and the catalog holds another value.
C5_Witness ==
    /\ call.op = "updateCurrentBrushSettings"
    /\ ret = Bool(TRUE)
    /\ Field(Deref(heap, currentBrush), "id") = Str("standardShader")
    /\ Field(Deref(heap, currentBrush), "size") = Num(2)
    /\ Field(CatalogPreset("basic", "standardShader"), "size") = Num(3)

\* The well-formed render calls: a surface, a color, a non-empty stroke without null samples.
WellFormedCall(c) ==
    /\ c.op = "applyBrushStroke"
    /\ c.args[1] # Null
    /\ c.args[2] # Null
    /\ c.args[3] # Null
    /\ Length(c.args[2]) > 0
    /\ \A i \in DOMAIN c.args[2].props : c.args[2].props[i] # Null

\* C6: setUserSubscription changes the tier and nothing else: a pro preset
\* selected under 'pro' stays selected after a downgrade and still renders,
\* while selecting a pro preset is then denied.
C6_TierChangeKeepsSelection ==
    [][/\ call'.op = "setUserSubscription" =>
            currentBrush' = currentBrush /\ heap' = heap /\ ctx' = ctx
       /\ WellFormedCall(call') /\ userSubscription = Str("free")
             /\ Field(Deref(heap, currentBrush), "subscription") = Str("pro") =>
            /\ ret' = Bool(TRUE)
            /\ NumCalls(trace', "save") = 1
            /\ Length(call'.args[2]) > 1 =>
                  NumCalls(trace', "stroke") + NumCalls(trace', "fill") > 0
       /\ call'.op = "selectBrush" /\ userSubscription = Str("free")
             /\ IsPreset(call'.args[1].s, call'.args[2].s)
             /\ CatalogPreset(call'.args[1].s, call'.args[2].s).props.subscription = Str("pro") =>
            /\ Field(ret', "reason") = Str("subscription_required")
            /\ currentBrush' = currentBrush
            /\ heap' = heap]_vars

\* A pro preset, selected, has rendered a stroke under the free tier.
C6_Witness ==
    /\ WellFormedCall(call)
    /\ userSubscription = Str("free")
    /\ currentBrush # Null
    /\ Field(Deref(heap, currentBrush), "subscription") = Str("pro")
    /\ Field(Deref(heap, currentBrush), "id") = Str("ombreLipOutline")
    /\ Length(call.args[2]) = 2
    /\ ret = Bool(TRUE)

\* C7: isFeatureAvailable fails closed: false for every string that is no
\* entry of the feature table; for an entry, true exactly when the entry is
\* free or the tier is 'pro'.
C7_FailsClosed ==
    call.op = "isFeatureAvailable" =>
        LET featureId == call.args[1].s
        IN  IF featureId \in DOMAIN features.props
            THEN ret = Bool(features.props[featureId] = Str("free") \/ userSubscription = Str("pro"))
            ELSE ret = Bool(FALSE)

\* C8: applyBrushStroke with no surface, a null or empty stroke, or no selected
\* preset returns false, makes no call on the surface and leaves the surface
\* and the session as they were.
C8_InvalidCallIsNoOp ==
    [][call'.op = "applyBrushStroke"
          /\ (\/ call'.args[1] = Null
              \/ call'.args[2] = Null
              \/ Length(call'.args[2]) = 0
              \/ currentBrush = Null) =>
            /\ ret' = Bool(FALSE)
            /\ trace' = <<>>
            /\ ctx' = ctx
            /\ heap' = heap
            /\ currentBrush' = currentBrush
            /\ userSubscription' = userSubscription]_vars

\* An empty stroke was refused with a preset selected.
C8_Witness ==
    /\ call.op = "applyBrushStroke"
    /\ call.args[1] # Null
    /\ call.args[2] = Arr(<<>>)
    /\ currentBrush # Null
    /\ ret = Bool(FALSE)

\* The call rendered a stroke with one of the two dab algorithms.
DabCall ==
    /\ WellFormedCall(call)
    /\ ret = Bool(TRUE)
    /\ currentBrush # Null
    /\ \/ Field(Deref(heap, currentBrush), "type") = Str("shader")
       \/ /\ Field(Deref(heap, currentBrush), "type") = Str("specialized")
          /\ Field(Deref(heap, currentBrush), "id") = Str("shader3RS")

TripleDabs == Field(Deref(heap, currentBrush), "type") = Str("specialized")

\* The position of the n-th sample (n from 1) of a stroke.
Pos(points, n) == [x |-> Field(points.props[n], "x"), y |-> Field(points.props[n], "y")]

\* The sample (from 1) that holds the reference position when sample k + 1
\* is decided: the latest stamped sample before it, the first sample if none.
RefSample(g, k) ==
    LET S == {j \in 1..k : j = 1 \/ g[j - 1].stamped}
    IN  CHOOSE j \in S : \A m \in S : m <= j

\* distance(a, b) >= threshold, for a threshold >= 0, in squares.
AtLeastApart(a, b, threshold) ==
    LET d2 == Dist2(a.x, a.y, b.x, b.y)
    IN  d2.n * threshold.d * threshold.d >= threshold.n * threshold.n * d2.d

NumStamped(g) == Cardinality({k \in DOMAIN g : g[k].stamped})

\* C9: in the shader and 3RS algorithms the reference position starts at the first
\* sample; a later sample is stamped exactly when its distance from the reference
\* is at least size * spacing; a stamp moves the reference to the sample itself
\* (not to the jittered dab), a skip leaves it; with spacing 0 every sample is stamped.
C9_DistanceGate ==
    DabCall =>
        LET points == call.args[2]
            size == Field(Deref(heap, currentBrush), "size")
            spacing == Field(Deref(heap, currentBrush), "spacing")
        IN  /\ Len(gate) = Length(points) - 1
            /\ \A k \in DOMAIN gate :
                  LET ref == Pos(points, RefSample(gate, k))
                  IN  /\ gate[k].i = k
                      /\ gate[k].lastX = ref.x
                      /\ gate[k].lastY = ref.y
                      /\ gate[k].stamped <=> AtLeastApart(Pos(points, k + 1), ref, Mul(size, spacing))
            /\ spacing = Num(0) => NumStamped(gate) = Len(gate)
            /\ NumCalls(trace, "arc") = (1 + NumStamped(gate)) * (IF TripleDabs THEN 3 ELSE 1)

\* A shader stroke where a sample was stamped with a jittered dab and a later
\* sample was skipped against that sample's own position.
C9_Witness ==
    /\ DabCall
    /\ ~TripleDabs
    /\ \E k \in DOMAIN gate : \E j \in DOMAIN gate :
          /\ k < j
          /\ gate[k].stamped
          /\ ~gate[j].stamped
          /\ RefSample(gate, j) = k + 1
          /\ Pos(call.args[2], k + 1) # Pos(call.args[2], 1)
          /\ \E e \in DOMAIN trace :
                /\ trace[e].op = "arc"
                /\ \A n \in DOMAIN call.args[2].props :
                      [x |-> trace[e].x, y |-> trace[e].y] # Pos(call.args[2], n)

\* The number of dabs _applyShaderBrush stamps for the call's stroke with the
\* selected preset's other parameters and the given spacing.
StampsWith(spacing) ==
    LET brush == Deref(heap, currentBrush)
        R == DabStroke(StartRender(InitCtx), 0, call.args[2], ColorString(call.args[3]),
                       Field(brush, "size"), Field(brush, "opacity"), spacing,
                       Field(brush, "scatter"), Field(brush, "pressureSensitivity"), FALSE)
    IN  1 + NumStamped(R.gate)

ShaderCall == DabCall /\ ~TripleDabs

\* The stamp count of the call is the one of the preset's spacing, and a
\* greater spacing never stamps more.
MonotoneInSpacing ==
    /\ NumCalls(trace, "arc") = StampsWith(Field(Deref(heap, currentBrush), "spacing"))
    /\ \A s1 \in GateSpacings : \A s2 \in GateSpacings :
          Leq(s1, s2) => StampsWith(s2) <= StampsWith(s1)

\* The samples advance along one straight line and never turn back: every
\* three samples in stroke order are collinear with the middle one between the others.
Straight(points) ==
    \A i \in DOMAIN points.props : \A j \in DOMAIN points.props : \A k \in DOMAIN points.props :
        i < j /\ j < k =>
            LET a == Pos(points, i)
                b == Pos(points, j)
                c == Pos(points, k)
                cross == Sub(Mul(Sub(b.x, a.x), Sub(c.y, a.y)), Mul(Sub(b.y, a.y), Sub(c.x, a.x)))
                dot == Add(Mul(Sub(b.x, a.x), Sub(c.x, b.x)), Mul(Sub(b.y, a.y), Sub(c.y, b.y)))
            IN  cross = Num(0) /\ Geq(dot, Num(0))

\* C10 as stated: for every stroke, size and random stream the number of dabs
\* the shader algorithm stamps never grows when spacing grows.
C10_MonotoneEveryStroke == ShaderCall => MonotoneInSpacing

\* C10, amended: the number of dabs never grows when spacing grows, for every
\* stroke whose samples advance along one straight line without turning back.
C10_MonotoneStraightStroke == ShaderCall /\ Straight(call.args[2]) => MonotoneInSpacing

\* A straight shader stroke of three distinct samples where a greater spacing stamps fewer dabs.
C10_Witness ==
    /\ ShaderCall
    /\ Straight(call.args[2])
    /\ Length(call.args[2]) = 3
    /\ Pos(call.args[2], 3) = [x |-> Num(2), y |-> Num(2)]
    /\ Pos(call.args[2], 2) = [x |-> Num(1), y |-> Num(1)]
    /\ \E s1 \in GateSpacings : \E s2 \in GateSpacings :
          Leq(s1, s2) /\ StampsWith(s2) < StampsWith(s1)

\* The places of the arc calls in a trace, in order.
Arcs(t) == SelectSeq([i \in 1..Len(t) |-> i], LAMBDA i : t[i].op = "arc")

\* The stamped entries of a gating record, in order.
Stamped(g) == SelectSeq(g, LAMBDA e : e.stamped)

\* The pressure a sample carries, 1 when it carries none.
SamplePressure(point) ==
    IF "pressure" \in DOMAIN point.props THEN point.props["pressure"] ELSE Num(1)

\* The sample (from 1) the j-th dab of a shader render is stamped for.
DabSample(g, j) == IF j = 1 THEN 1 ELSE Stamped(g)[j - 1].i + 1

\* C11: every dab of a shader render, the dab of the first sample included, has
\* radius (size / 2) * (1 + (pressure - 0.5) * pressureSensitivity) and alpha
\* opacity * pressure, for the pressure of the sample it is stamped for.
C11_EveryDabPressureScaled ==
    ShaderCall =>
        LET points == call.args[2]
            brush == Deref(heap, currentBrush)
            arcs == Arcs(trace)
        IN  /\ Len(arcs) = 1 + Len(Stamped(gate))
            /\ \A j \in DOMAIN arcs :
                  LET pressure == SamplePressure(points.props[DabSample(gate, j)])
                      scale == Add(Num(1), Mul(Sub(pressure, Rat(1, 2)),
                                               Field(brush, "pressureSensitivity")))
                  IN  /\ trace[arcs[j]].r = Mul(Div(Field(brush, "size"), Num(2)), scale)
                      /\ trace[arcs[j] - 2] =
                            Entry("set", "globalAlpha", Mul(Field(brush, "opacity"), pressure),
                                  Undef, Undef, Undef, Undef, Undef)

\* The places of the calls of one operation in a trace, in order.
Places(t, op) == SelectSeq([i \in 1..Len(t) |-> i], LAMBDA i : t[i].op = op)

SetTo(key, val) == Entry("set", key, val, Undef, Undef, Undef, Undef, Undef)

\* size * (1 + (pressure - 0.5) * pressureSensitivity) for the pressure a sample carries.
WidthFor(brush, point) ==
    Mul(Field(brush, "size"),
        Add(Num(1), Mul(Sub(SamplePressure(point), Rat(1, 2)), Field(brush, "pressureSensitivity"))))

\* C12: a sample that carries a pressure p in [0, 1], p = 0 included, is
\* rendered with p in the width and alpha formulas; 1 stands in only for a
\* sample without a pressure. Stated for the liner's segments and the shader's
\* stamped dabs.
C12_PressureZeroIsUsed ==
    WellFormedCall(call) /\ ret = Bool(TRUE) /\ currentBrush # Null =>
        LET points == call.args[2]
            brush == Deref(heap, currentBrush)
            lines == Places(trace, "lineTo")
            arcs == Places(trace, "arc")
        IN  /\ Field(brush, "type") = Str("liner") =>
                  /\ Len(lines) = Length(points) - 1
                  /\ \A j \in DOMAIN lines :
                        trace[lines[j] - 1] = SetTo("lineWidth", WidthFor(brush, points.props[j + 1]))
            /\ Field(brush, "type") = Str("shader") =>
                  \A j \in DOMAIN arcs : j > 1 =>
                      LET point == points.props[DabSample(gate, j)]
                      IN  /\ trace[arcs[j]].r = Div(WidthFor(brush, point), Num(2))
                          /\ trace[arcs[j] - 2] =
                                SetTo("globalAlpha", Mul(Field(brush, "opacity"), SamplePressure(point)))

\* What stroke() draws: the segment that the lineTo at place l of a trace
\* added to the path is drawn by the next stroke() with the line width and the
\* alpha in force at that stroke(), not with those in force at the lineTo.
StrokedWith(t, l, key) ==
    LET s == CHOOSE i \in l..Len(t) : t[i].op = "stroke" /\ \A m \in l..i : t[m].op = "stroke" => m = i
        sets == {i \in 1..s : t[i].op = "set" /\ t[i].key = key}
    IN  t[CHOOSE i \in sets : \A m \in sets : m <= i].val

\* The path a render draws goes through the samples of the stroke, in order.
ThroughAllSamples(t, points) ==
    /\ Len(Places(t, "moveTo")) = 1
    /\ Len(Places(t, "lineTo")) = Length(points) - 1
    /\ \A j \in DOMAIN Places(t, "moveTo") :
          [x |-> t[Places(t, "moveTo")[j]].x, y |-> t[Places(t, "moveTo")[j]].y] = Pos(points, 1)
    /\ \A j \in DOMAIN Places(t, "lineTo") :
          /\ Places(t, "moveTo")[1] < Places(t, "lineTo")[j]
          /\ [x |-> t[Places(t, "lineTo")[j]].x, y |-> t[Places(t, "lineTo")[j]].y] = Pos(points, j + 1)

RenderedAs(type) ==
    /\ WellFormedCall(call)
    /\ ret = Bool(TRUE)
    /\ currentBrush # Null
    /\ Field(Deref(heap, currentBrush), "type") = Str(type)

\* C13: a liner render draws one continuous stroked path through all samples
\* in order with constant alpha = opacity, and the segment ending at sample i
\* is rendered with width size * (1 + (pressure_i - 0.5) * pressureSensitivity).
C13_LinerSegmentWidths ==
    RenderedAs("liner") =>
        LET points == call.args[2]
            brush == Deref(heap, currentBrush)
            lines == Places(trace, "lineTo")
        IN  /\ NumCalls(trace, "beginPath") = 1
            /\ NumCalls(trace, "stroke") = 1
            /\ ThroughAllSamples(trace, points)
            /\ \A j \in DOMAIN lines :
                  /\ StrokedWith(trace, lines[j], "globalAlpha") = Field(brush, "opacity")
                  /\ StrokedWith(trace, lines[j], "lineWidth") = WidthFor(brush, points.props[j + 1])

OmbreCall ==
    RenderedAs("specialized") /\ Field(Deref(heap, currentBrush), "id") = Str("ombreLipOutline")

\* The calls a render makes besides save(), the composite operation and restore().
DrawingCalls(t) == {i \in DOMAIN t : t[i].op \notin {"save", "restore"} /\ t[i].key # "globalCompositeOperation"}

\* The alpha the j-th segment of the call's stroke is drawn with.
SegmentAlpha(j) == StrokedWith(trace, Places(trace, "lineTo")[j], "globalAlpha")

\* opacity * pressure of the sample (from 1) the call's stroke holds at n.
OpacityTimesPressure(n) ==
    Mul(Field(Deref(heap, currentBrush), "opacity"), SamplePressure(call.args[2].props[n]))

\* C14 as stated: in a gradient-outline render of n >= 2 samples the first
\* segment has alpha opacity * pressure and the last opacity * 0.7 * pressure;
\* with fewer than 2 samples nothing is drawn.
C14_FirstSegmentFullOpacity ==
    OmbreCall =>
        LET n == Length(call.args[2])
        IN  IF n < 2 THEN DrawingCalls(trace) = {}
            ELSE /\ Len(Places(trace, "lineTo")) = n - 1
                 /\ SegmentAlpha(1) = OpacityTimesPressure(2)
                 /\ SegmentAlpha(n - 1) = Mul(Rat(7, 10), OpacityTimesPressure(n))

\* C14, amended: the segment ending at sample i (i = 1 .. n - 1, from 0) has
\* alpha opacity * (1 - 0.3 * i / (n - 1)) * pressure, so the last segment has
\* opacity * 0.7 * pressure and the first opacity * (1 - 0.3 / (n - 1)) * pressure;
\* each segment is stroked on its own; with fewer than 2 samples nothing is drawn.
C14_SegmentAlphaByProgress ==
    OmbreCall =>
        LET n == Length(call.args[2])
        IN  IF n < 2 THEN DrawingCalls(trace) = {}
            ELSE /\ Len(Places(trace, "lineTo")) = n - 1
                 /\ NumCalls(trace, "stroke") = n - 1
                 /\ Len(Places(trace, "moveTo")) = n - 1
                 /\ \A i \in 1..(n - 1) :
                       LET from == trace[Places(trace, "moveTo")[i]]
                           to == trace[Places(trace, "lineTo")[i]]
                       IN  /\ [x |-> from.x, y |-> from.y] = Pos(call.args[2], i)
                           /\ [x |-> to.x, y |-> to.y] = Pos(call.args[2], i + 1)
                           /\ Places(trace, "moveTo")[i] < Places(trace, "lineTo")[i]
                           /\ SegmentAlpha(i) =
                                 Mul(Sub(Num(1), Mul(Rat(3, 10), Rat(i, n - 1))),
                                     OpacityTimesPressure(i + 1))
                 /\ SegmentAlpha(n - 1) = Mul(Rat(7, 10), OpacityTimesPressure(n))

\* A gradient outline of three samples whose first segment is drawn below
\* opacity * pressure and above the last segment's share of it.
C14_Witness ==
    /\ OmbreCall
    /\ Length(call.args[2]) = 3
    /\ SamplePressure(call.args[2].props[2]) = Rat(1, 2)
    /\ SegmentAlpha(1) = Mul(Rat(85, 100), OpacityTimesPressure(2))
    /\ SegmentAlpha(2) = Mul(Rat(7, 10), OpacityTimesPressure(3))

MicrobladeCall ==
    /\ RenderedAs("specialized")
    /\ Field(Deref(heap, currentBrush), "id") = Str("microbladeNatural")
    /\ Length(call.args[2]) > 1

\* The width computed for sample n (from 1, n > 1) of the call's stroke.
ComputedWidth(n) == trace[Places(trace, "lineTo")[n - 1] - 1].val

\* Sample n (from 1) lies at exactly half the total path length.
AtHalfLength(points, n) ==
    Mul(Num(2), PathLength(points, n - 1)) = PathLength(points, Length(points) - 1)

\* One path from the first sample through all the others, stroked once with alpha = opacity.
OnePathConstantAlpha ==
    /\ NumCalls(trace, "beginPath") = 1
    /\ NumCalls(trace, "stroke") = 1
    /\ ThroughAllSamples(trace, call.args[2])
    /\ \A j \in DOMAIN Places(trace, "lineTo") :
          StrokedWith(trace, Places(trace, "lineTo")[j], "globalAlpha") =
              Field(Deref(heap, currentBrush), "opacity")

\* C15 as stated: in a tapered render of at least 2 samples, whatever their
\* pressures, the width computed at a sample at exactly half the path length
\* is the greatest width computed, the width at the first and at the last
\* sample is 0, and the path is one continuous path with constant alpha = opacity.
C15_MidpointWidest ==
    MicrobladeCall =>
        LET points == call.args[2]
            n == Length(points)
            sets == {i \in 1..Places(trace, "moveTo")[1] : trace[i].op = "set" /\ trace[i].key = "lineWidth"}
        IN  /\ OnePathConstantAlpha
            /\ \A m \in 2..n : AtHalfLength(points, m) =>
                  \A i \in 2..n : Geq(ComputedWidth(m), ComputedWidth(i))
            /\ ComputedWidth(n) = Num(0)
            /\ IF sets = {} THEN ctx.state.lineWidth = Num(0)
               ELSE \A i \in sets : trace[i].val = Num(0)

\* C15, amended: a width is computed for every sample but the first:
\* size * 4t(1 - t) * (1 + (pressure - 0.5) * pressureSensitivity), t the share of
\* the path length reached at the sample; on a stroke of positive length the
\* width at the last sample is 0, and the width at a sample at exactly half the
\* length is the greatest when no sample's pressure exceeds that sample's; on a
\* stroke of length 0 every width is NaN; one continuous path, alpha = opacity.
C15_TaperedWidths ==
    MicrobladeCall =>
        LET points == call.args[2]
            brush == Deref(heap, currentBrush)
            n == Length(points)
            total == PathLength(points, n - 1)
        IN  /\ OnePathConstantAlpha
            /\ Len(Places(trace, "set")) = n + 4
            /\ \A i \in 2..n : trace[Places(trace, "lineTo")[i - 1] - 1].key = "lineWidth"
            /\ total = Num(0) => \A i \in 2..n : ComputedWidth(i) = NaN
            /\ total # Num(0) =>
                  /\ \A i \in 2..n :
                        LET t == Div(PathLength(points, i - 1), total)
                        IN  ComputedWidth(i) =
                                Mul(Mul(Mul(Num(4), t), Sub(Num(1), t)), WidthFor(brush, points.props[i]))
                  /\ ComputedWidth(n) = Num(0)
                  /\ \A m \in 2..n :
                        /\ AtHalfLength(points, m)
                        /\ \A i \in 2..n : Leq(SamplePressure(points.props[i]), SamplePressure(points.props[m]))
                        => \A i \in 2..n : Geq(ComputedWidth(m), ComputedWidth(i))

\* A tapered stroke of four samples whose second one lies at half the length
\* and gets the greatest width, above a positive width after it.
C15_Witness ==
    /\ MicrobladeCall
    /\ call.args[2] = Arr(<<Sample(0, 0), Sample(2, 0), Sample(3, 0), Sample(4, 0)>>)
    /\ AtHalfLength(call.args[2], 2)
    /\ ComputedWidth(2) # ComputedWidth(3)
    /\ Geq(ComputedWidth(2), ComputedWidth(3))
    /\ ComputedWidth(3) # Num(0)
    /\ ComputedWidth(4) = Num(0)

\* C16: when the selected preset's family is none of liner, shader and
\* specialized, or it is specialized and the preset's id is none of shader3RS,
\* ombreLipOutline and microbladeNatural, applyBrushStroke draws a plain path
\* through all samples with constant width = size and constant alpha = opacity,
\* without dabs, and returns true.
C16_FallbackIsPlainPath ==
    LET brush == Deref(heap, currentBrush)
        lines == Places(trace, "lineTo")
        widths == {i \in DOMAIN trace : trace[i].op = "set" /\ trace[i].key = "lineWidth"}
    IN  /\ WellFormedCall(call)
        /\ currentBrush # Null
        /\ \/ Field(brush, "type") \notin {Str("liner"), Str("shader"), Str("specialized")}
           \/ /\ Field(brush, "type") = Str("specialized")
              /\ Field(brush, "id") \notin
                    {Str("shader3RS"), Str("ombreLipOutline"), Str("microbladeNatural")}
        => /\ ret = Bool(TRUE)
           /\ NumCalls(trace, "arc") = 0
           /\ OnePathConstantAlpha
           /\ \A i \in widths : trace[i].val = Field(brush, "size")
           /\ widths # {}

\* C17: applyBrushStroke keeps no state between calls: a call leaves the
\* selected preset, the tier and the catalog as they were, and the calls it
\* makes on the surface (up to the random values) and its result are those the
\* same call makes on an untouched surface with the same preset selected.
C17_NoCrossCallState ==
    [][call'.op = "applyBrushStroke" =>
          /\ heap' = heap
          /\ currentBrush' = currentBrush
          /\ userSubscription' = userSubscription
          /\ IF call'.args[1] # Null /\ call'.args[2] # Null /\ currentBrush # Null
                /\ Length(call'.args[2]) > 0
             THEN \E seed \in Seeds :
                      \E F \in {TryRender(InitCtx, heap, currentBrush, seed, call'.args[2], call'.args[3])} :
                          trace' = F.trace /\ ret' = Bool(~F.threw)
             ELSE trace' = <<>> /\ ret' = Bool(FALSE)]_vars

\* A two-point render with an overridden preset, after which the preset still holds the override.
C17_Witness ==
    /\ WellFormedCall(call)
    /\ ret = Bool(TRUE)
    /\ Length(call.args[2]) = 2
    /\ currentBrush # Null
    /\ Field(Deref(heap, currentBrush), "id") = Str("standardShader")
    /\ Field(Deref(heap, currentBrush), "size") = Num(2)
    /\ NumCalls(trace, "arc") = 2
    /\ ctx = InitCtx

\* The catalog entries of one subscription level, as (category, id) pairs.
PresetsOf(level) ==
    {e \in (DOMAIN brushPresets.props) \X BrushIdInputs :
        IsPreset(e[1], e[2]) /\ CatalogPreset(e[1], e[2]).props.subscription = Str(level)}

\* The presets a result of getAvailableBrushes lists outside 'locked'.
Unlocked(result) ==
    {e \in (DOMAIN result.props \ {"locked"}) \X BrushIdInputs : e[2] \in DOMAIN result.props[e[1]].props}

\* C18: in every session state getAvailableBrushes under 'free' lists every
\* free preset as unlocked and every pro preset, with all its catalog fields,
\* under 'locked', and no pro preset as unlocked; under 'pro' it lists every
\* catalog preset as unlocked and the result has no 'locked' key.
C18_ListingByTier ==
    call.op = "getAvailableBrushes" =>
        /\ \A e \in Unlocked(ret) :
              IsPreset(e[1], e[2]) /\ Deref(heap, ret.props[e[1]].props[e[2]]) = CatalogPreset(e[1], e[2])
        /\ IF userSubscription = Str("pro")
           THEN /\ Unlocked(ret) = PresetsOf("free") \cup PresetsOf("pro")
                /\ "locked" \notin DOMAIN ret.props
           ELSE /\ Unlocked(ret) = PresetsOf("free")
                /\ "locked" \in DOMAIN ret.props
                /\ DOMAIN ret.props["locked"].props = {e[2] : e \in PresetsOf("pro")}
                /\ \A e \in PresetsOf("pro") :
                      ret.props["locked"].props[e[2]] = CatalogPreset(e[1], e[2])

\* The listing of the free tier, asked for with an overridden preset selected.
C18_Witness ==
    /\ call.op = "getAvailableBrushes"
    /\ userSubscription = Str("free")
    /\ currentBrush # Null
    /\ Field(Deref(heap, currentBrush), "id") = Str("standardShader")
    /\ Field(Deref(heap, currentBrush), "size") = Num(2)
    /\ Field(Field(Field(ret, "locked"), "shader3RS"), "size") = Num(3)

\* C19: under every interleaving of initialize(), detectFace() and dispose()
\* calls on one detector, at most one model-creation attempt is in flight at
\* any time: a call of initialize() made while an attempt is in flight starts
\* no attempt and calls no createDetector, and a call made while the model is
\* loaded returns true at once, with no attempt and no createDetector.
C19_AtMostOneAttempt ==
    [][/\ Cardinality(InFlight') <= 1
       /\ (Len(tasks') > Len(tasks) /\ tasks'[Len(tasks')].op = "initialize") =>
              /\ InFlight # {} => (InFlight' = InFlight /\ Created' = Created)
              /\ isModelLoaded =>
                     /\ tasks'[Len(tasks')].pc = "done"
                     /\ tasks'[Len(tasks')].ret = "true"
                     /\ InFlight' = InFlight
                     /\ Created' = Created
                     /\ model' = model]_vars

\* One call of initialize() has returned false without starting an attempt (an
\* attempt was in flight) and a later one has returned true without starting
\* one (the model was loaded).
C19_Witness ==
    \E b, c \in DOMAIN tasks :
        /\ b < c
        /\ tasks[b].op = "initialize" /\ ~tasks[b].attempt /\ tasks[b].ret = "false"
        /\ tasks[c].op = "initialize" /\ ~tasks[c].attempt /\ tasks[c].ret = "true"

\* Whether calculateSymmetryScore(landmarks) is one of the cases named to give
\* 80: a reference point missing, no group contributing, or an error raised.
DefaultCase(landmarks) ==
    \/ Raises(landmarks)
    \/ ReferenceMissing(landmarks)
    \/ ~BrowPair(landmarks) /\ ~LipGroup(landmarks)

\* C20: calculateSymmetryScore returns an integer between 0 and 100 inclusive
\* for every landmarks input, and exactly 80 whenever a reference point
\* (midForehead, noseTip, midChin) is missing, whenever neither the brow pair
\* nor the outer-lip group contributes, and whenever the computation raises an
\* error.
C20_ScoreIsPercentage ==
    call.op = "calculateSymmetryScore" =>
        /\ IsNum(ret) /\ ret.d = 1 /\ ret.n \in 0..100
        /\ DefaultCase(call.args[1]) => ret = Num(80)

\* The last call was a render that went to one of the pro stroke algorithms
\* (triple-point, gradient-outline, tapered).
ProDispatch ==
    /\ WellFormedCall(call)
    /\ currentBrush # Null
    /\ Field(Deref(heap, currentBrush), "type") = Str("specialized")
    /\ Field(Deref(heap, currentBrush), "id") \in
           {Str("shader3RS"), Str("ombreLipOutline"), Str("microbladeNatural")}

\* The selected preset, if there is one, has the type, id and subscription of
\* an entry of the free category.
SelectedIsFreeEntry ==
    currentBrush # Null =>
        \E brushId \in DOMAIN brushPresets.props.basic.props :
            /\ Field(Deref(heap, currentBrush), "id") = Str(brushId)
            /\ Field(Deref(heap, currentBrush), "type") = CatalogPreset("basic", brushId).props.type
            /\ Field(Deref(heap, currentBrush), "subscription") =
                   CatalogPreset("basic", brushId).props.subscription

\* C21: in a session whose tier has been 'free' at every moment since
\* construction, no sequence of selectBrush, updateCurrentBrushSettings and
\* applyBrushStroke calls makes a render go to a pro stroke algorithm: the
\* selected preset always has the type, id and subscription of a free catalog
\* entry.
C21_FreeSessionStaysFree ==
    userSubscription = Str("free") => (SelectedIsFreeEntry /\ ~ProDispatch)

\* C22: a rejected operation leaves the session exactly as it was. A
\* selectBrush that fails (invalid_category, invalid_brush or
\* subscription_required) leaves the selected preset, with its overrides, and
\* the tier unchanged; setUserSubscription with a level other than 'free' or
\* 'pro' returns false and leaves the tier unchanged, so the tier is always
\* 'free' or 'pro'; and the selected preset is null until the first successful
\* selectBrush.
C22_RejectedLeavesSession ==
    /\ currentBrush = Null
    /\ userSubscription = Str("free")
    /\ [][/\ (call'.op = "selectBrush" /\ Field(ret', "success") # Bool(TRUE)) =>
                 /\ Field(ret', "success") = Bool(FALSE)
                 /\ Field(ret', "reason") \in {Str("invalid_category"), Str("invalid_brush"),
                                               Str("subscription_required")}
                 /\ currentBrush' = currentBrush
                 /\ heap' = heap
                 /\ userSubscription' = userSubscription
          /\ (call'.op = "setUserSubscription"
                 /\ call'.args[1] \notin {Str("free"), Str("pro")}) =>
                 /\ ret' = Bool(FALSE)
                 /\ userSubscription' = userSubscription
                 /\ currentBrush' = currentBrush
                 /\ heap' = heap
          /\ userSubscription' \in {Str("free"), Str("pro")}
          /\ (currentBrush = Null /\ currentBrush' # Null) =>
                 (call'.op = "selectBrush" /\ Field(ret', "success") = Bool(TRUE))]_vars

\* A selection has just been refused for the tier while a free preset with an
\* overridden size was selected, and the preset and its override are still there.
C22_Witness ==
    /\ call.op = "selectBrush"
    /\ Field(ret, "reason") = Str("subscription_required")
    /\ userSubscription = Str("free")
    /\ currentBrush # Null
    /\ Field(Deref(heap, currentBrush), "id") = Str("standardLiner")
    /\ Field(Deref(heap, currentBrush), "size") = Num(2)

\* C23: in every tapered (microbladeNatural) render of a stroke of at least 2
\* samples, strokes of total length 0 included, the progress
\* traveledLength / totalLength is a number in [0,1] at every sample, so the
\* taper factor is a number in [0,1] and the width assigned to the surface is a
\* finite number >= 0.
C23_ProgressWellDefined ==
    MicrobladeCall =>
        \A i \in 2..Length(call.args[2]) :
            LET progress == Div(PathLength(call.args[2], i - 1),
                                PathLength(call.args[2], Length(call.args[2]) - 1))
            IN  /\ Geq(progress, Num(0)) /\ Leq(progress, Num(1))
                /\ Geq(TaperFactor(progress), Num(0)) /\ Leq(TaperFactor(progress), Num(1))
                /\ Geq(ComputedWidth(i), Num(0))

\* Call t on the detector has reported an initialization failure: initialize()
\* returned false, or detectFace() returned 'Model initialization failed'.
ReportsFailure(t) ==
    /\ tasks[t].pc = "done"
    /\ \/ tasks[t].op = "initialize" /\ tasks[t].ret = "false"
       \/ tasks[t].op = "detectFace" /\ tasks[t].ret = "Model initialization failed"

\* C24: initialize() returns false only when a model-creation attempt has
\* failed, and detectFace() returns 'Model initialization failed' only in that
\* case; a call made while another attempt is in flight does not report
\* failure unless an attempt has failed.
C24_FailureOnlyAfterFailedAttempt ==
    \A t \in DOMAIN tasks :
        ReportsFailure(t) => \E u \in DOMAIN tasks : tasks[u].attempt /\ ReportsFailure(u)

====
